---------------------------- MODULE Spec2Model ----------------------------
(***************************************************************************)
(* A model of the definition layer of the slang dataflow runtime           *)
(* (pkg/core/def.go): TypeDef, ServiceDef/DelegateDef, InstanceDef,        *)
(* OperatorDef and the property expression expander.                       *)
(*                                                                         *)
(* Go strings that the code inspects character by character (names, map    *)
(* keys, generic identifiers, expressions) are sequences of one-character  *)
(* strings; the type discriminant, which the code only compares, is a      *)
(* TLA+ string.  A *TypeDef is an address into heap (0 is nil); a TypeDef  *)
(* held by value is the node stored at an address of its own.  A nil Go    *)
(* map and an empty one behave alike in every function modelled here       *)
(* (they are only ranged over, indexed and measured), so both are the      *)
(* empty function.                                                         *)
(***************************************************************************)
EXTENDS Integers, Sequences, FiniteSets, TLC

VARIABLES
  heap,     \* the TypeDef nodes allocated so far, by address
  td,       \* address of the TypeDef under operation
  cpy,      \* address holding the result of td.Copy(), NIL before
  gens,     \* the generics map: identifier -> address of the bound TypeDef
  data,     \* the runtime value handed to VerifyData; the locals of a build
  expr,     \* the string handed to ExpandExpression
  props,    \* the property bag: name -> value
  propDefs, \* the property schema: name -> address of its TypeDef
  out,      \* the []string a call returned
  def,      \* the OperatorDef table: index -> OperatorDef (1 is the root)
  err,      \* the error the last call returned ("nil" for none)
  pc,       \* the position in the calling sequence
  wires,    \* the connections Port.Connect has made, in the order made
  hist      \* history: shapes and inputs recorded before the calls

vars == <<heap, td, cpy, gens, data, expr, props, propDefs, out, def, err, pc, wires, hist>>

NIL == 0

NoErr == "nil"

NoMap == [k \in {} |-> NIL]

Str(c) == <<c>>

(***************************************************************************)
(* TypeDef nodes (def.go:52-60) and the heap.                              *)
(***************************************************************************)
TypeDef(T, G, S, M) ==
  [Type |-> T, Generic |-> G, Stream |-> S, Map |-> M, valid |-> FALSE]

Alloc(h, n) == [h |-> Append(h, n), a |-> Len(h) + 1]

\* Store puts the node c.v at a fresh address of the heap c.h.
Store(c) == Alloc(c.h, c.v)

\* The order in which a Go range visits a key set is unspecified; ord is one
\* order of all keys and KeysIn lists the keys of ks in that order.
KeysIn(ks, ord) == SelectSeq(ord, LAMBDA k : k \in ks)

RECURSIVE SetToSeq(_)
SetToSeq(S) ==
  IF S = {} THEN <<>>
  ELSE LET x == CHOOSE x \in S : TRUE IN <<x>> \o SetToSeq(S \ {x})

Perms(S) ==
  {s \in [1..Cardinality(S) -> S] : \A i, j \in 1..Cardinality(S) : i # j => s[i] # s[j]}

(***************************************************************************)
(* Trees: the TypeDef values handed to the program (a parsed JSON/YAML     *)
(* document or a Go literal).  Stream is <<>> for nil or <<child>>; Map    *)
(* sends a key to <<>> for a nil entry or to <<child>>.                    *)
(***************************************************************************)
Tree(T, G, S, M) == [Type |-> T, Generic |-> G, Stream |-> S, Map |-> M]

TLeaf(T) == Tree(T, <<>>, <<>>, NoMap)

TGeneric(id) == Tree("generic", id, <<>>, NoMap)

TStream(x) == Tree("stream", <<>>, <<x>>, NoMap)

TStreamNil == Tree("stream", <<>>, <<>>, NoMap)

TMap(m) == Tree("map", <<>>, <<>>, m)

\* Build stores a tree's children in the heap and returns the root node.
RECURSIVE Build(_, _)
RECURSIVE BuildEntries(_, _, _)
Build(h, t) ==
  LET WithStream(s) ==
        LET WithMap(m) == [v |-> TypeDef(t.Type, t.Generic, s.a, m.m), h |-> m.h]
        IN WithMap(BuildEntries(s.h, t.Map, SetToSeq(DOMAIN t.Map)))
  IN WithStream(IF t.Stream = <<>> THEN [h |-> h, a |-> NIL]
                ELSE Store(Build(h, t.Stream[1])))

BuildEntries(h, tm, ks) ==
  IF ks = <<>> THEN [h |-> h, m |-> NoMap]
  ELSE LET WithEntry(e) ==
             LET WithRest(r) == [m |-> (Head(ks) :> e.a) @@ r.m, h |-> r.h]
             IN WithRest(BuildEntries(e.h, tm, Tail(ks)))
       IN WithEntry(IF tm[Head(ks)] = <<>> THEN [h |-> h, a |-> NIL]
                    ELSE Store(Build(h, tm[Head(ks)][1])))

\* BuildAt builds tree t and stores its root at a fresh address.
BuildAt(h, t) == Store(Build(h, t))

\* Shape reads back the tree stored at address a (the valid bit left out).
RECURSIVE Shape(_, _)
Shape(h, a) ==
  LET d == h[a] IN
  Tree(d.Type, d.Generic,
       IF d.Stream = NIL THEN <<>> ELSE <<Shape(h, d.Stream)>>,
       [k \in DOMAIN d.Map |-> IF d.Map[k] = NIL THEN <<>> ELSE <<Shape(h, d.Map[k])>>])

\* The addresses of the nodes below address a (a itself left out).
RECURSIVE Below(_, _)
Below(h, a) ==
  LET d == h[a]
      kids == ({d.Stream} \cup {d.Map[k] : k \in DOMAIN d.Map}) \ {NIL}
  IN kids \cup UNION {Below(h, c) : c \in kids}

(***************************************************************************)
(* TypeDef.Validate (def.go:400-443).  Returns the heap with the valid     *)
(* bits the call set, and the error.                                       *)
(***************************************************************************)
validTypes ==
  {"generic", "primitive", "trigger", "number", "string", "binary", "boolean", "stream", "map"}

SetValid(h, a) == [h EXCEPT ![a].valid = TRUE]

RECURSIVE Validate(_, _, _)
RECURSIVE ValidateEntries(_, _, _, _)
\* A Validate that accepts a stream as soon as its child is there.
ValidateStreamUnchecked(h, a, ord) ==
  LET d == h[a]
      Accept(r) == IF r.err # NoErr THEN r ELSE [h |-> SetValid(r.h, a), err |-> NoErr]
  IN
  IF d.Type = "stream" /\ d.Stream # NIL THEN [h |-> h, err |-> NoErr]
  ELSE IF d.Type = "" THEN [h |-> h, err |-> "type must not be empty"]
  ELSE IF d.Type \notin validTypes THEN [h |-> h, err |-> "unknown type"]
  ELSE IF d.Type = "generic" THEN
    IF d.Generic = <<>> THEN [h |-> h, err |-> "generic identifier missing"]
    ELSE [h |-> SetValid(h, a), err |-> NoErr]
  ELSE IF d.Type = "stream" THEN [h |-> h, err |-> "stream missing"]
  ELSE IF d.Type = "map" THEN
    IF Cardinality(DOMAIN d.Map) = 0 THEN [h |-> h, err |-> "map missing or empty"]
    ELSE Accept(ValidateEntries(h, d.Map, KeysIn(DOMAIN d.Map, ord), ord))
  ELSE [h |-> SetValid(h, a), err |-> NoErr]

Validate(h, a, ord) ==
  LET d == h[a]
      Accept(r) == IF r.err # NoErr THEN r ELSE [h |-> SetValid(r.h, a), err |-> NoErr]
  IN
  IF d.Type = "" THEN [h |-> h, err |-> "type must not be empty"]
  ELSE IF d.Type \notin validTypes THEN [h |-> h, err |-> "unknown type"]
  ELSE IF d.Type = "generic" THEN
    IF d.Generic = <<>> THEN [h |-> h, err |-> "generic identifier missing"]
    ELSE [h |-> SetValid(h, a), err |-> NoErr]
  ELSE IF d.Type = "stream" THEN
    IF d.Stream = NIL THEN [h |-> h, err |-> "stream missing"]
    ELSE Validate(h, d.Stream, ord)
  ELSE IF d.Type = "map" THEN
    IF Cardinality(DOMAIN d.Map) = 0 THEN [h |-> h, err |-> "map missing or empty"]
    ELSE Accept(ValidateEntries(h, d.Map, KeysIn(DOMAIN d.Map, ord), ord))
  ELSE [h |-> SetValid(h, a), err |-> NoErr]

ValidateEntries(h, m, ks, ord) ==
  IF ks = <<>> THEN [h |-> h, err |-> NoErr]
  ELSE IF m[Head(ks)] = NIL THEN [h |-> h, err |-> "map entry must not be null"]
  ELSE LET Rest(r) == IF r.err # NoErr THEN r ELSE ValidateEntries(r.h, m, Tail(ks), ord)
       IN Rest(Validate(h, m[Head(ks)], ord))

(***************************************************************************)
(* TypeDef.Copy (def.go:445-461).  Returns the heap with the copies of     *)
(* the children and the copied root node.  The order of the range over     *)
(* d.Map only decides which address a copy gets.                           *)
(***************************************************************************)
RECURSIVE Copy(_, _)
RECURSIVE CopyEntries(_, _, _)
\* A Copy that copies the root and shares the stream child.
CopySharedStream(h, d) ==
  LET WithMap(m) == [h |-> m.h, v |-> TypeDef(d.Type, d.Generic, d.Stream, m.m)]
  IN WithMap(CopyEntries(h, d.Map, SetToSeq(DOMAIN d.Map)))

Copy(h, d) ==
  LET WithStream(s) ==
        LET WithMap(m) == [v |-> TypeDef(d.Type, d.Generic, s.a, m.m), h |-> m.h]
        IN WithMap(CopyEntries(s.h, d.Map, SetToSeq(DOMAIN d.Map)))
  IN WithStream(IF d.Stream # NIL THEN Store(Copy(h, h[d.Stream]))
                ELSE [h |-> h, a |-> NIL])

CopyEntries(h, m, ks) ==
  IF ks = <<>> THEN [h |-> h, m |-> NoMap]
  ELSE LET WithEntry(e) ==
             LET WithRest(r) == [m |-> (Head(ks) :> e.a) @@ r.m, h |-> r.h]
             IN WithRest(CopyEntries(e.h, m, Tail(ks)))
       IN WithEntry(Store(Copy(h, h[m[Head(ks)]])))

(***************************************************************************)
(* TypeDef.SpecifyGenerics (def.go:466-490).  ids is the order in which    *)
(* the range visits the identifiers of the generics map g.  SpecifyStep is *)
(* the loop from its i-th iteration on.  The call returns nil whenever it  *)
(* returns.  sp is the depth of the call on the goroutine's stack: the     *)
(* recursion ends the program with a stack overflow when it outgrows the   *)
(* stack, and the result is then Overflow in place of a heap.              *)
(***************************************************************************)
MaxStack == 20

Overflow == <<>>

RECURSIVE SpecifyGenerics(_, _, _, _, _)
RECURSIVE SpecifyStep(_, _, _, _, _, _)
RECURSIVE SpecifyEntries(_, _, _, _, _, _)
\* A loop that gives up on a leaf after the first identifier of the range.
SpecifyStepFirstOnly(h, a, g, ids, i, sp) ==
  IF i > Len(ids) THEN h
  ELSE LET d == h[a]
           Bound(c) == [c.h EXCEPT ![a] = c.v]
           Child(e) == SpecifyGenerics([e.h EXCEPT ![a].Stream = e.a], e.a, g, ids, sp + 1)
           Entries(r) == IF r.h = Overflow THEN Overflow
                         ELSE SpecifyStep([r.h EXCEPT ![a].Map = r.m], a, g, ids, i + 1, sp)
       IN IF d.Generic = ids[i] THEN Bound(Copy(h, h[g[ids[i]]]))
          ELSE IF d.Type = "stream" THEN Child(Store(Copy(h, h[d.Stream])))
          ELSE IF d.Type = "map"
            THEN Entries(SpecifyEntries(h, d.Map, SetToSeq(DOMAIN d.Map), g, ids, sp))
          ELSE h

SpecifyStep(h, a, g, ids, i, sp) ==
  IF i > Len(ids) THEN h
  ELSE LET d == h[a]
           Bound(c) == [c.h EXCEPT ![a] = c.v]
           Child(e) == SpecifyGenerics([e.h EXCEPT ![a].Stream = e.a], e.a, g, ids, sp + 1)
           Entries(r) == IF r.h = Overflow THEN Overflow
                         ELSE SpecifyStep([r.h EXCEPT ![a].Map = r.m], a, g, ids, i + 1, sp)
       IN IF d.Generic = ids[i] THEN Bound(Copy(h, h[g[ids[i]]]))
          ELSE IF d.Type = "stream" THEN Child(Store(Copy(h, h[d.Stream])))
          ELSE IF d.Type = "map"
            THEN Entries(SpecifyEntries(h, d.Map, SetToSeq(DOMAIN d.Map), g, ids, sp))
          ELSE SpecifyStep(h, a, g, ids, i + 1, sp)

\* The range over d.Map of the map branch, from key Head(ks) on.
SpecifyEntries(h, m, ks, g, ids, sp) ==
  IF ks = <<>> THEN [h |-> h, m |-> NoMap]
  ELSE LET WithEntry(e) ==
             LET WithRest(r) == [m |-> (Head(ks) :> e.a) @@ r.m, h |-> r.h]
                 Specified1(s) == IF s = Overflow THEN [h |-> Overflow, m |-> NoMap]
                                  ELSE WithRest(SpecifyEntries(s, m, Tail(ks), g, ids, sp))
             IN Specified1(SpecifyGenerics(e.h, e.a, g, ids, sp + 1))
       IN WithEntry(Store(Copy(h, h[m[Head(ks)]])))

SpecifyGenerics(h, a, g, ids, sp) ==
  IF sp > MaxStack THEN Overflow ELSE SpecifyStep(h, a, g, ids, 1, sp)

(***************************************************************************)
(* TypeDef.GenericsSpecified (def.go:492-508): TRUE when it returns nil.   *)
(***************************************************************************)
RECURSIVE GenericsSpecified(_, _)
GenericsSpecified(h, d) ==
  IF d.Type = "generic" \/ d.Generic # <<>> THEN FALSE
  ELSE IF d.Type = "stream" THEN GenericsSpecified(h, h[d.Stream])
  ELSE IF d.Type = "map" THEN \A k \in DOMAIN d.Map : GenericsSpecified(h, h[d.Map[k]])
  ELSE TRUE

(***************************************************************************)
(* The TypeDefs the checks start from, by number of nodes.                 *)
(***************************************************************************)
KeyA == Str("a")

KeyB == Str("b")

GenT == Str("t")

GenU == Str("u")

\* nils: also maps with a null entry, and one-entry maps under either key
\* (without nils a one-entry map has key a: the code treats all keys alike).
RECURSIVE TreesOfSize(_, _, _)
TreesOfSize(n, one, nils) ==
  IF n = 1 THEN one
  ELSE LET sub == TreesOfSize(n - 1, one, nils) IN
       {TStream(x) : x \in sub}
       \cup {TMap(k :> <<x>>) : k \in (IF nils THEN {KeyA, KeyB} ELSE {KeyA}), x \in sub}
       \cup (IF nils
             THEN {TMap((KeyA :> <<x>>) @@ (KeyB :> <<>>)) : x \in sub}
                  \cup {TMap((KeyA :> <<>>) @@ (KeyB :> <<x>>)) : x \in sub}
             ELSE {})
       \cup UNION {{TMap((KeyA :> <<x>>) @@ (KeyB :> <<y>>)) :
                      x \in TreesOfSize(i, one, nils),
                      y \in TreesOfSize(n - 1 - i, one, nils)} : i \in 1..(n - 2)}

TreesUpTo(n, one, nils) == UNION {TreesOfSize(i, one, nils) : i \in 1..n}

\* Every keys of a map in the heap, and the orders a range may visit them in.
KeysOf(h) == UNION {DOMAIN h[a].Map : a \in 1..Len(h)}

KeyOrders(h) == Perms(KeysOf(h))

\* The values of the variables a specification does not use.
Idle == <<>>

(***************************************************************************)
(* SpecValidate: Validate on a TypeDef as parsed, well-formed or not.      *)
(***************************************************************************)
MaxNodesV == 3

\* One-node documents: every discriminant Validate knows, an empty and an
\* unknown one, a generic with and without identifier, a stream without
\* child, a map without entries and maps with null entries only.
NodesV ==
  {TLeaf(T) : T \in validTypes \cup {"", "bogus"}}
  \cup {TGeneric(GenT)}
  \cup {TMap(m) : m \in {(KeyA :> <<>>), (KeyB :> <<>>), (KeyA :> <<>>) @@ (KeyB :> <<>>)}}

InitValidate ==
  \E t \in TreesUpTo(MaxNodesV, NodesV, TRUE) :
    \E b \in {BuildAt(<<>>, t)} :
    /\ heap = b.h
    /\ td = b.a
    /\ hist = [orig |-> t]
    /\ pc = "parsed"
    /\ err = NoErr
    /\ wires = Idle
    /\ cpy = NIL /\ gens = Idle /\ data = Idle /\ expr = Idle
    /\ props = Idle /\ propDefs = Idle /\ out = Idle /\ def = Idle

\* err := td.Validate()
DoValidate ==
  /\ pc = "parsed"
  /\ \E ord \in KeyOrders(heap) :
       \E r \in {Validate(heap, td, ord)} :
       /\ heap' = r.h
       /\ err' = r.err
  /\ pc' = "validated"
  /\ UNCHANGED <<td, cpy, gens, data, expr, wires, props, propDefs, out, def, hist>>

NextValidate == DoValidate

SpecValidate == InitValidate /\ [][NextValidate]_vars

\* What the specification of Validate asks of a TypeDef document.
RECURSIVE WellFormed(_)
WellFormed(t) ==
  /\ t.Type \in {"generic", "primitive", "trigger", "number", "string",
                 "binary", "boolean", "stream", "map"}
  /\ t.Type = "generic" => t.Generic # <<>>
  /\ t.Type = "stream" => t.Stream # <<>> /\ WellFormed(t.Stream[1])
  /\ t.Type = "map" =>
       /\ DOMAIN t.Map # {}
       /\ \A k \in DOMAIN t.Map : t.Map[k] # <<>> /\ WellFormed(t.Map[k][1])

MaxNodesG == 3

MaxBoundNodes == 1

NodesG == {TLeaf("number"), TGeneric(GenT), TGeneric(GenU)}

Bindings ==
  UNION {[ids -> TreesUpTo(MaxBoundNodes, NodesG, FALSE)] : ids \in SUBSET {GenT, GenU}}

RECURSIVE BuildGenerics(_, _, _)
BuildGenerics(h, b, ids) ==
  IF ids = <<>> THEN [h |-> h, g |-> NoMap]
  ELSE LET WithEntry(e) ==
             LET WithRest(r) == [g |-> (Head(ids) :> e.a) @@ r.g, h |-> r.h]
             IN WithRest(BuildGenerics(e.h, b, Tail(ids)))
       IN WithEntry(BuildAt(h, b[Head(ids)]))

InitGenerics ==
  \E t \in TreesUpTo(MaxNodesG, NodesG, FALSE), b \in Bindings :
    \E r \in {BuildAt(<<>>, t)} :
    \E g \in {BuildGenerics(r.h, b, SetToSeq(DOMAIN b))} :
    /\ heap = g.h
    /\ td = r.a
    /\ gens = g.g
    /\ cpy = NIL
    /\ hist = [orig |-> t, bind |-> b, tgt |-> NIL, after1 |-> t]
    /\ pc = "validated"
    /\ err = NoErr
    /\ wires = Idle
    /\ data = Idle /\ expr = Idle
    /\ props = Idle /\ propDefs = Idle /\ out = Idle /\ def = Idle

\* cpy := td.Copy()
DoCopy ==
  /\ pc = "validated"
  /\ \E e \in {Store(Copy(heap, heap[td]))} :
       /\ heap' = e.h
       /\ cpy' = e.a
  /\ pc' = "copied"
  /\ UNCHANGED <<td, gens, data, expr, wires, props, propDefs, out, def, err, hist>>

\* err := tgt.SpecifyGenerics(gens), on td or (once copied) on its copy, a
\* first and a second time; a recursion that outgrows the stack ends the program
DoSpecifyGenerics ==
  /\ pc \in {"validated", "copied", "specified1"}
  /\ \E ids \in Perms(DOMAIN gens),
        tgt \in {IF pc = "specified1" THEN hist.tgt
                  ELSE IF pc = "copied" THEN cpy ELSE td} :
       \E h \in {SpecifyGenerics(heap, tgt, gens, ids, 1)} :
       IF h = Overflow
       THEN /\ pc' = "stack overflow"
            /\ UNCHANGED <<heap, hist>>
       ELSE /\ heap' = h
            /\ hist' = [hist EXCEPT !.tgt = tgt,
                                    !.after1 = IF pc = "specified1" THEN @
                                               ELSE Shape(h, tgt)]
            /\ pc' = IF pc = "specified1" THEN "specified2" ELSE "specified1"
  /\ err' = NoErr
  /\ UNCHANGED <<td, cpy, gens, data, expr, wires, props, propDefs, out, def>>

NextGenerics == DoCopy \/ DoSpecifyGenerics

SpecGenerics == InitGenerics /\ [][NextGenerics]_vars

\* The tree t with every generic node bound by b replaced by the type b
\* binds it to, and every other node kept.
RECURSIVE Subst(_, _)
Subst(t, b) ==
  IF t.Type = "generic" /\ t.Generic \in DOMAIN b THEN b[t.Generic]
  ELSE Tree(t.Type, t.Generic,
            IF t.Stream = <<>> THEN <<>> ELSE <<Subst(t.Stream[1], b)>>,
            [k \in DOMAIN t.Map |-> <<Subst(t.Map[k][1], b)>>])

\* The generic identifiers occurring in tree t.
RECURSIVE GenericsIn(_)
GenericsIn(t) ==
  (IF t.Type = "generic" THEN {t.Generic} ELSE {})
  \cup (IF t.Stream = <<>> THEN {} ELSE GenericsIn(t.Stream[1]))
  \cup UNION {GenericsIn(t.Map[k][1]) : k \in DOMAIN t.Map}

\* No type bound by b holds a generic that b binds.
Closed(b) == \A id \in DOMAIN b : GenericsIn(b[id]) \cap DOMAIN b = {}

\* C2: after t.SpecifyGenerics(b) every generic node bound by b is replaced
\* by the type bound to it, every other generic node is still that generic
\* node, and every other node keeps its discriminant and its map key set.
C2_SpecifyGenericsSubstitutes ==
  pc = "specified1" => Shape(heap, hist.tgt) = Subst(hist.orig, hist.bind)

\* C2 where no bound type holds a generic that b binds.
C2_ClosedBindings ==
  (pc = "specified1" /\ Closed(hist.bind))
    => Shape(heap, hist.tgt) = Subst(hist.orig, hist.bind)

\* C3 as claimed: SpecifyGenerics(b) applied twice gives the TypeDef that
\* applying it once gives, whatever the bound types are.
C3_IdempotentAnyBindings ==
  pc = "specified2" => Shape(heap, hist.tgt) = hist.after1

\* C3 as amended: SpecifyGenerics(b) applied twice gives the TypeDef that
\* applying it once gives, when no type bound by b holds a generic node whose
\* identifier is a key of b.
C3_IdempotentClosedBindings ==
  (pc = "specified2" /\ Closed(hist.bind)) => Shape(heap, hist.tgt) = hist.after1

\* Twice specified under closed bindings, with a generic under a map replaced
\* and another one left.
C3_Witness ==
  /\ pc = "specified2"
  /\ Closed(hist.bind)
  /\ hist.bind # NoMap
  /\ hist.orig.Type = "map"
  /\ hist.after1 # hist.orig
  /\ GenericsIn(hist.after1) # {}

\* C4: t.Copy() has the shape of t at every depth and shares no node with t;
\* specifying generics on the one leaves the other as it was.
C4_CopyIsDeepAndEqual ==
  /\ pc = "copied" =>
       /\ Shape(heap, cpy) = hist.orig
       /\ Shape(heap, td) = hist.orig
       /\ (Below(heap, cpy) \cup {cpy}) \cap (Below(heap, td) \cup {td}) = {}
  /\ (pc \in {"specified1", "specified2"} /\ cpy # NIL) =>
       /\ Shape(heap, IF hist.tgt = td THEN cpy ELSE td) = hist.orig
       /\ (Below(heap, cpy) \cup {cpy}) \cap (Below(heap, td) \cup {td}) = {}

\* A map holding a stream has been copied and the copy specified.
C4_Witness ==
  /\ pc = "specified1"
  /\ hist.tgt = cpy
  /\ cpy # NIL
  /\ hist.orig.Type = "map"
  /\ \E k \in DOMAIN hist.orig.Map : hist.orig.Map[k][1].Type = "stream"
  /\ Shape(heap, cpy) # hist.orig

(***************************************************************************)
(* Runtime values (interface{}): kind is the dynamic Go type the type      *)
(* switch of VerifyData sees; "binary" is utils.Binary, the type the       *)
(* builtins carry binary data in (unnamed/part_001:56).  A map value sends *)
(* keys to values, a slice value lists values, and val is the text of a    *)
(* scalar: the characters of a string, the decimal digits of a number      *)
(* (empty where no function modelled reads it).                            *)
(***************************************************************************)
Value(k, t, m, s) == [kind |-> k, val |-> t, m |-> m, s |-> s]

VScalar(k) == Value(k, <<>>, NoMap, <<>>)

VString(t) == Value("string", t, NoMap, <<>>)

VInt(t) == Value("int", t, NoMap, <<>>)

VMap(m) == Value("map", <<>>, m, <<>>)

VSlice(s) == Value("slice", <<>>, NoMap, s)

ScalarKinds == {"nil", "string", "int", "float64", "bool", "binary"}

RECURSIVE ValuesOfSize(_, _)
ValuesOfSize(n, one) ==
  IF n = 1 THEN one
  ELSE LET sub == ValuesOfSize(n - 1, one) IN
       {VSlice(<<x>>) : x \in sub}
       \cup {VMap(k :> x) : k \in {KeyA, KeyB}, x \in sub}
       \cup UNION {{VMap((KeyA :> x) @@ (KeyB :> y)) :
                      x \in ValuesOfSize(i, one),
                      y \in ValuesOfSize(n - 1 - i, one)} : i \in 1..(n - 2)}
       \cup UNION {{VSlice(<<x, y>>) :
                      x \in ValuesOfSize(i, one),
                      y \in ValuesOfSize(n - 1 - i, one)} : i \in 1..(n - 2)}

ValuesUpTo(n, one) == UNION {ValuesOfSize(i, one) : i \in 1..n}

(***************************************************************************)
(* TypeDef.VerifyData (def.go:510-563).  ord is the order of the range     *)
(* over d.Map: it decides which error a map with several bad entries       *)
(* returns.                                                                *)
(***************************************************************************)
Mismatch == "exptected type, got value"

RECURSIVE VerifyData(_, _, _, _)
RECURSIVE VerifyEntries(_, _, _, _, _)
RECURSIVE VerifyElements(_, _, _, _, _)
VerifyData(h, d, v, ord) ==
  IF v.kind = "nil" THEN
    IF d.Type \in {"stream", "primitive", "trigger", "string", "number", "boolean"}
    THEN NoErr ELSE Mismatch
  ELSE IF v.kind = "string" THEN
    IF d.Type \in {"string", "primitive", "trigger"} THEN NoErr ELSE Mismatch
  ELSE IF v.kind = "int" THEN
    IF d.Type \in {"number", "primitive", "trigger"} THEN NoErr ELSE Mismatch
  ELSE IF v.kind = "float64" THEN
    IF d.Type \in {"number", "primitive", "trigger"} THEN NoErr ELSE Mismatch
  ELSE IF v.kind = "bool" THEN
    IF d.Type \in {"boolean", "primitive", "trigger"} THEN NoErr ELSE Mismatch
  ELSE IF v.kind = "map" THEN
    IF d.Type = "trigger" THEN NoErr
    ELSE IF d.Type = "map" THEN VerifyEntries(h, d.Map, v.m, KeysIn(DOMAIN d.Map, ord), ord)
    ELSE Mismatch
  ELSE IF v.kind = "slice" THEN
    IF d.Type = "stream" THEN VerifyElements(h, h[d.Stream], v.s, 1, ord)
    ELSE Mismatch
  ELSE Mismatch

\* The range over d.Map (def.go:537-546), from key Head(ks) on.
VerifyEntries(h, m, vm, ks, ord) ==
  IF ks = <<>> THEN NoErr
  ELSE IF Head(ks) \notin DOMAIN vm THEN "missing entry"
  ELSE LET Rest(e) == IF e # NoErr THEN e ELSE VerifyEntries(h, m, vm, Tail(ks), ord)
       IN Rest(VerifyData(h, h[m[Head(ks)]], vm[Head(ks)], ord))

\* The range over the slice (def.go:553-558), from its i-th element on.
VerifyElements(h, sub, vs, i, ord) ==
  IF i > Len(vs) THEN NoErr
  ELSE LET Rest(e) == IF e # NoErr THEN e ELSE VerifyElements(h, sub, vs, i + 1, ord)
       IN Rest(VerifyData(h, sub, vs[i], ord))

(***************************************************************************)
(* SpecVerify: VerifyData of a value against a validated, generic-free     *)
(* TypeDef.                                                                *)
(***************************************************************************)
MaxTypeNodes == 2

MaxValueNodes == 3

LeafTypes == {"primitive", "trigger", "number", "string", "boolean", "binary"}

TypesD ==
  {TLeaf(T) : T \in LeafTypes}
  \cup TreesUpTo(MaxTypeNodes, {TLeaf("number"), TLeaf("trigger")}, TRUE)

ValuesD ==
  {VScalar(k) : k \in ScalarKinds}
  \cup ValuesUpTo(MaxValueNodes, {VScalar("nil"), VScalar("int"), VScalar("string"),
                                  VMap(NoMap), VSlice(<<>>)})

InitVerify ==
  \E t \in {x \in TypesD : WellFormed(x)}, v \in ValuesD :
    \E b \in {BuildAt(<<>>, t)} :
    /\ heap = b.h
    /\ td = b.a
    /\ data = v
    /\ hist = [orig |-> t]
    /\ pc = "validated"
    /\ err = NoErr
    /\ wires = Idle
    /\ cpy = NIL /\ gens = Idle /\ expr = Idle
    /\ props = Idle /\ propDefs = Idle /\ out = Idle /\ def = Idle

\* err := td.VerifyData(data)
DoVerifyData ==
  /\ pc = "validated"
  /\ \E ord \in KeyOrders(heap) : err' = VerifyData(heap, heap[td], data, ord)
  /\ pc' = "verified"
  /\ UNCHANGED <<heap, td, cpy, gens, data, expr, wires, props, propDefs, out, def, hist>>

NextVerify == DoVerifyData

SpecVerify == InitVerify /\ [][NextVerify]_vars

\* C5: for a map-typed t, t.VerifyData(v) succeeds if and only if v is a map
\* whose key set is exactly that of t.Map and whose every entry conforms to
\* the child type under its key (conformance of an entry being what
\* VerifyData says of it).
C5_MapExactKeySet ==
  (pc = "verified" /\ hist.orig.Type = "map") =>
    (err = NoErr <=>
       /\ data.kind = "map"
       /\ DOMAIN data.m = DOMAIN hist.orig.Map
       /\ \A k \in DOMAIN data.m :
            \A ord \in KeyOrders(heap) :
              VerifyData(heap, heap[heap[td].Map[k]], data.m[k], ord) = NoErr)

\* C6: for a trigger-typed TypeDef VerifyData succeeds for every value shape:
\* null, number, string, boolean, a map with any keys, a sequence of any values.
C6_TriggerAcceptsAll ==
  (pc = "verified" /\ hist.orig.Type = "trigger" /\ data.kind # "binary")
    => err = NoErr

\* C7: a number, string, boolean or binary TypeDef accepts every non-null value
\* of its own kind and rejects every non-null value of another kind; a
\* primitive TypeDef accepts every non-null scalar and rejects maps and
\* sequences.
KindOf(T) ==
  CASE T = "number" -> {"int", "float64"}
    [] T = "string" -> {"string"}
    [] T = "boolean" -> {"bool"}
    [] T = "binary" -> {"binary"}
    [] T = "primitive" -> ScalarKinds \ {"nil"}

C7_LeafTypesMatchKinds ==
  (/\ pc = "verified"
   /\ hist.orig.Type \in {"number", "string", "boolean", "binary", "primitive"}
   /\ data.kind # "nil")
    => (err = NoErr <=> data.kind \in KindOf(hist.orig.Type))

(***************************************************************************)
(* Strings of the property parser.                                         *)
(***************************************************************************)
\* The first index at or after i where old starts in e, 0 if none
\* (strings.Index).
\* The least number of a set of numbers.
Least(S) == CHOOSE x \in S : \A y \in S : x <= y

Index(e, old, i) ==
  LET Found(at) == IF at = {} THEN 0 ELSE Least(at)
  IN Found({j \in i..(Len(e) - Len(old) + 1) : SubSeq(e, j, j + Len(old) - 1) = old})

\* strings.Replace(e, old, new, 1): the first occurrence of old replaced.
Replace(e, old, new) ==
  LET At(j) == IF j = 0 THEN e
               ELSE SubSeq(e, 1, j - 1) \o new \o SubSeq(e, j + Len(old), Len(e))
  IN At(Index(e, old, 1))

\* regexp "{(.*?)}", FindAllStringSubmatch(s, -1) from index i on: the
\* leftmost "{" that a "}" follows with no line break between, up to the first
\* such "}"; then on from behind it.  Each match is <<match[0], match[1]>>.
RECURSIVE FindAllStringSubmatch(_, _)
FindAllStringSubmatch(s, i) ==
  LET Close(p) == {q \in (p + 1)..Len(s) : s[q] = "}"}
      Opens == {p \in i..Len(s) :
                  /\ s[p] = "{"
                  /\ Close(p) # {}
                  /\ \A j \in (p + 1)..(Least(Close(p)) - 1) : s[j] # "\n"}
      Match(p, q) == <<<<SubSeq(s, p, q), SubSeq(s, p + 1, q - 1)>>>>
                       \o FindAllStringSubmatch(s, q + 1)
      From(p) == Match(p, Least(Close(p)))
      Leftmost(o) == IF o = {} THEN <<>> ELSE From(Least(o))
  IN Leftmost(Opens)

\* fmt.Sprintf("%v", v) for the values a property holds here: strings,
\* numbers, nil and slices of them.
RECURSIVE Sprint(_)
RECURSIVE SprintElements(_, _)
Sprint(v) ==
  IF v.kind = "nil" THEN <<"<", "n", "i", "l", ">">>
  ELSE IF v.kind = "slice" THEN <<"[">> \o SprintElements(v.s, 1) \o <<"]">>
  ELSE v.val

SprintElements(vs, i) ==
  IF i > Len(vs) THEN <<>>
  ELSE (IF i > 1 THEN <<" ">> ELSE <<>>) \o Sprint(vs[i]) \o SprintElements(vs, i + 1)

(***************************************************************************)
(* expandExpressionPart (def.go:696-712).  panic is set where the Go code  *)
(* dereferences a nil *TypeDef (a name the schema lacks) or asserts        *)
(* []interface{} on a value that is none.                                  *)
(***************************************************************************)
Part(vals, e, p) == [vals |-> vals, err |-> e, panic |-> p]

\* A part that formats a stream-typed property like any other.
expandExpressionPartNoStream(h, exprPart, ps, pds) ==
  IF exprPart \notin DOMAIN ps THEN Part(<<>>, "missing property", FALSE)
  ELSE IF exprPart \notin DOMAIN pds THEN Part(<<>>, NoErr, TRUE)
  ELSE Part(<<Sprint(ps[exprPart])>>, NoErr, FALSE)

expandExpressionPart(h, exprPart, ps, pds) ==
  IF exprPart \notin DOMAIN ps THEN Part(<<>>, "missing property", FALSE)
  ELSE IF exprPart \notin DOMAIN pds \/ pds[exprPart] = NIL THEN Part(<<>>, NoErr, TRUE)
  ELSE IF h[pds[exprPart]].Type = "stream" THEN
    IF ps[exprPart].kind # "slice" THEN Part(<<>>, NoErr, TRUE)
    ELSE Part([i \in 1..Len(ps[exprPart].s) |-> Sprint(ps[exprPart].s[i])], NoErr, FALSE)
  ELSE Part(<<Sprint(ps[exprPart])>>, NoErr, FALSE)

(***************************************************************************)
(* ExpandExpression (def.go:714-740).  The outer range runs over the       *)
(* one-element slice it was started on, so its body runs once, on expr;    *)
(* ExpandParts is the inner range over the matches, from the i-th on.      *)
(***************************************************************************)
\* newExprs of def.go:730-735: for each val, for each e of exprs.
RECURSIVE ReplaceEach(_, _, _, _)
ReplaceEach(exprs, old, vals, i) ==
  IF i > Len(vals) THEN <<>>
  ELSE [j \in 1..Len(exprs) |-> Replace(exprs[j], old, vals[i])]
       \o ReplaceEach(exprs, old, vals, i + 1)

RECURSIVE ExpandParts(_, _, _, _, _, _)
ExpandParts(h, exprs, parts, i, ps, pds) ==
  IF i > Len(parts) THEN [out |-> exprs, err |-> NoErr, panic |-> FALSE]
  ELSE LET Rest(r) ==
             IF r.panic THEN [out |-> <<>>, err |-> NoErr, panic |-> TRUE]
             ELSE IF r.err # NoErr THEN [out |-> <<>>, err |-> r.err, panic |-> FALSE]
             ELSE ExpandParts(h, ReplaceEach(exprs, parts[i][1], r.vals, 1), parts, i + 1,
                              ps, pds)
       IN Rest(expandExpressionPart(h, parts[i][2], ps, pds))

ExpandExpression(h, e, ps, pds) ==
  ExpandParts(h, <<e>>, FindAllStringSubmatch(e, 1), 1, ps, pds)

(***************************************************************************)
(* SpecExpand: ExpandExpression on a string, a property bag and a schema.  *)
(***************************************************************************)
MaxExprLen == 4

MaxElems == 2

NameP == Str("p")

NameX == Str("x")

ExprChars == {"{", "}", "p", "x"}

Exprs == UNION {[1..n -> ExprChars] : n \in 0..MaxExprLen}

Texts == {VString(Str("v")), VString(Str("w")), VInt(Str("7"))}

\* What a bag and a schema hold for one name: <<>> for nothing, or the value
\* and the declared type.
Opt(v, t) == [v |-> v, t |-> t]

OptionsP ==
  {Opt(<<>>, <<>>), Opt(<<>>, <<TLeaf("string")>>), Opt(<<VString(Str("v"))>>, <<>>),
   Opt(<<VString(Str("v"))>>, <<TLeaf("string")>>),
   Opt(<<VInt(Str("7"))>>, <<TLeaf("number")>>),
   Opt(<<VString(Str("v"))>>, <<TStream(TLeaf("string"))>>)}
  \cup {Opt(<<VSlice(vs)>>, <<TStream(TLeaf("primitive"))>>) :
          vs \in UNION {[1..n -> Texts] : n \in 0..MaxElems}}
  \cup {Opt(<<VSlice(<<VString(Str("v")), VString(Str("w"))>>)>>, <<TLeaf("primitive")>>)}

OptionsX == {Opt(<<>>, <<>>), Opt(<<VString(Str("w"))>>, <<TLeaf("string")>>)}

\* The bag and the schema (built in the heap) of options op for name p and
\* ox for name x.
Bag(op, ox) ==
  [n \in (IF op.v = <<>> THEN {} ELSE {NameP}) \cup (IF ox.v = <<>> THEN {} ELSE {NameX})
     |-> IF n = NameP THEN op.v[1] ELSE ox.v[1]]

Schema(op, ox) ==
  [n \in (IF op.t = <<>> THEN {} ELSE {NameP}) \cup (IF ox.t = <<>> THEN {} ELSE {NameX})
     |-> IF n = NameP THEN op.t[1] ELSE ox.t[1]]

InitExpand ==
  \E e \in Exprs, op \in OptionsP, ox \in OptionsX :
    \E g \in {BuildGenerics(<<>>, Schema(op, ox), SetToSeq(DOMAIN Schema(op, ox)))} :
    /\ heap = g.h
    /\ propDefs = g.g
    /\ props = Bag(op, ox)
    /\ expr = e
    /\ out = <<>>
    /\ pc = "call"
    /\ err = NoErr
    /\ wires = Idle
    /\ hist = Idle
    /\ td = NIL /\ cpy = NIL /\ gens = Idle /\ data = Idle /\ def = Idle

\* out, err := ExpandExpression(expr, props, propDefs)
DoExpandExpression ==
  /\ pc = "call"
  /\ \E r \in {ExpandExpression(heap, expr, props, propDefs)} :
       /\ out' = r.out
       /\ err' = r.err
       /\ pc' = IF r.panic THEN "panic" ELSE "expanded"
  /\ UNCHANGED <<heap, td, cpy, gens, data, expr, wires, props, propDefs, def, hist>>

NextExpand == DoExpandExpression

SpecExpand == InitExpand /\ [][NextExpand]_vars

\* The places of character c in string s.
Places(s, c) == {i \in 1..Len(s) : s[i] = c}

\* s holds one placeholder: one "{", one "}" behind it.
OnePlaceholder(s) ==
  /\ Cardinality(Places(s, "{")) = 1
  /\ Cardinality(Places(s, "}")) = 1
  /\ \A i \in Places(s, "{") : \A j \in Places(s, "}") : i < j

NoPlaceholder(s) == \A i \in Places(s, "{") : \A j \in Places(s, "}") : j < i

OpenAt(s) == CHOOSE i \in Places(s, "{") : TRUE

CloseAt(s) == CHOOSE j \in Places(s, "}") : TRUE

PlaceholderName(s) == SubSeq(s, OpenAt(s) + 1, CloseAt(s) - 1)

\* s with its one placeholder replaced by text t.
Filled(s, t) == SubSeq(s, 1, OpenAt(s) - 1) \o t \o SubSeq(s, CloseAt(s) + 1, Len(s))

\* C10: for a string with one placeholder {name}: if schema[name] is
\* stream-typed and props[name] is the sequence v1..vn, ExpandExpression
\* returns exactly n strings, the i-th being s with {name} replaced by vi; if
\* schema[name] is not stream-typed it returns exactly one string; and for a
\* string without placeholder it returns exactly [s].
C10_ExpandOnePlaceholder ==
  pc \in {"expanded", "panic"} =>
    /\ (/\ OnePlaceholder(expr)
        /\ PlaceholderName(expr) \in DOMAIN props \cap DOMAIN propDefs) =>
         LET v == props[PlaceholderName(expr)]
             t == heap[propDefs[PlaceholderName(expr)]]
         IN /\ (t.Type = "stream" /\ v.kind = "slice") =>
                 /\ pc = "expanded" /\ err = NoErr
                 /\ out = [i \in 1..Len(v.s) |-> Filled(expr, v.s[i].val)]
            /\ t.Type # "stream" =>
                 /\ pc = "expanded" /\ err = NoErr
                 /\ Len(out) = 1
    /\ NoPlaceholder(expr) => (pc = "expanded" /\ err = NoErr /\ out = <<expr>>)

\* A string with text before its placeholder has been expanded by a stream of
\* two different elements.
C10_Witness ==
  /\ pc = "expanded"
  /\ OnePlaceholder(expr)
  /\ OpenAt(expr) > 1
  /\ PlaceholderName(expr) = NameP
  /\ NameP \in DOMAIN props \cap DOMAIN propDefs
  /\ heap[propDefs[NameP]].Type = "stream"
  /\ props[NameP].kind = "slice"
  /\ Len(props[NameP].s) = 2
  /\ props[NameP].s[1] # props[NameP].s[2]
  /\ Len(out) = 2

\* The names of the placeholders the regular expression finds in string s.
PlaceholderNames(s) ==
  {FindAllStringSubmatch(s, 1)[i][2] : i \in 1..Len(FindAllStringSubmatch(s, 1))}

\* C11: whenever the string holds a placeholder {name} whose name is absent
\* from the property bag or absent from the property schema, ExpandExpression
\* returns an error and no expansions, and does not crash.
C11_UnknownNameIsError ==
  (/\ pc \in {"expanded", "panic"}
   /\ \E n \in PlaceholderNames(expr) : n \notin DOMAIN props \cap DOMAIN propDefs)
    => (pc = "expanded" /\ err # NoErr /\ out = <<>>)

(***************************************************************************)
(* Operator definitions (def.go:17-50).  A ServiceDef or DelegateDef holds *)
(* the addresses of its In and Out TypeDef; an InstanceDef holds its       *)
(* OperatorDef by value; Generics and PropertyDefs send a name to the      *)
(* address of a TypeDef.                                                   *)
(***************************************************************************)
ServiceDef(In, Out) == [In |-> In, Out |-> Out, valid |-> FALSE]

DelegateDef(In, Out) == [In |-> In, Out |-> Out, valid |-> FALSE]

InstanceDef(Name, Operator, Properties, Generics, Def) ==
  [Name |-> Name, Operator |-> Operator, Properties |-> Properties,
   Generics |-> Generics, valid |-> FALSE, OperatorDef |-> Def]

OperatorDef(S, D, I, P) ==
  [ServiceDefs |-> S, DelegateDefs |-> D, InstanceDefs |-> I, PropertyDefs |-> P,
   valid |-> FALSE]

\* Operator documents: the same records with trees in the place of TypeDefs.
\* BuildOperator stores the trees of a document in the heap.
RECURSIVE BuildPorts(_, _, _)
BuildPorts(h, m, ks) ==
  IF ks = <<>> THEN [h |-> h, m |-> NoMap]
  ELSE LET WithIn(i) ==
             LET WithOut(o) ==
                   LET WithRest(r) == [m |-> (Head(ks) :> ServiceDef(i.a, o.a)) @@ r.m,
                                       h |-> r.h]
                   IN WithRest(BuildPorts(o.h, m, Tail(ks)))
             IN WithOut(BuildAt(i.h, m[Head(ks)].Out))
       IN WithIn(BuildAt(h, m[Head(ks)].In))

RECURSIVE BuildOperator(_, _)
RECURSIVE BuildInstances(_, _, _)
BuildOperator(h, doc) ==
  LET WithServices(s) ==
        LET WithDelegates(d) ==
              LET WithProperties(p) ==
                    LET WithInstances(i) == [d |-> OperatorDef(s.m, d.m, i.is, p.g), h |-> i.h]
                    IN WithInstances(BuildInstances(p.h, doc.InstanceDefs, 1))
              IN WithProperties(BuildGenerics(d.h, doc.PropertyDefs,
                                              SetToSeq(DOMAIN doc.PropertyDefs)))
        IN WithDelegates(BuildPorts(s.h, doc.DelegateDefs, SetToSeq(DOMAIN doc.DelegateDefs)))
  IN WithServices(BuildPorts(h, doc.ServiceDefs, SetToSeq(DOMAIN doc.ServiceDefs)))

BuildInstances(h, is, i) ==
  IF i > Len(is) THEN [h |-> h, is |-> <<>>]
  ELSE LET WithGenerics(g) ==
             LET WithOperator(o) ==
                   LET WithRest(r) ==
                         [is |-> <<InstanceDef(is[i].Name, is[i].Operator, is[i].Properties,
                                               g.g, o.d)>> \o r.is,
                          h |-> r.h]
                   IN WithRest(BuildInstances(o.h, is, i + 1))
             IN WithOperator(BuildOperator(g.h, is[i].OperatorDef))
       IN WithGenerics(BuildGenerics(h, is[i].Generics, SetToSeq(DOMAIN is[i].Generics)))

\* strings.Contains(s, c) for a one-character c.
Contains(s, c) == \E i \in 1..Len(s) : s[i] = c

(***************************************************************************)
(* InstanceDef.Validate (def.go:68-87), ServiceDef.Validate (316-327),     *)
(* DelegateDef.Validate (344-355) and OperatorDef.Validate (95-122).  Each *)
(* returns the heap, the definition with the valid bits the call set, and  *)
(* the error.  nord is the order in which the ranges over ServiceDefs and  *)
(* DelegateDefs visit the names.                                           *)
(***************************************************************************)
InstanceDefValidate(d) ==
  IF d.Name = <<>> THEN [d |-> d, err |-> "instance name may not be empty"]
  ELSE IF Contains(d.Name, " ")
    THEN [d |-> d, err |-> "operator instance name may not contain spaces"]
  ELSE IF d.Operator = <<>> THEN [d |-> d, err |-> "operator may not be empty"]
  ELSE IF Contains(d.Operator, " ") THEN [d |-> d, err |-> "operator may not contain spaces"]
  ELSE [d |-> [d EXCEPT !.valid = TRUE], err |-> NoErr]

ServiceDefValidate(h, d, ord) ==
  LET Out(o) == IF o.err # NoErr THEN [h |-> o.h, d |-> d, err |-> o.err]
                ELSE [h |-> o.h, d |-> [d EXCEPT !.valid = TRUE], err |-> NoErr]
      In(i) == IF i.err # NoErr THEN [h |-> i.h, d |-> d, err |-> i.err]
               ELSE Out(Validate(i.h, d.Out, ord))
  IN In(Validate(h, d.In, ord))

DelegateDefValidate(h, d, ord) ==
  LET Out(o) == IF o.err # NoErr THEN [h |-> o.h, d |-> d, err |-> o.err]
                ELSE [h |-> o.h, d |-> [d EXCEPT !.valid = TRUE], err |-> NoErr]
      In(i) == IF i.err # NoErr THEN [h |-> i.h, d |-> d, err |-> i.err]
               ELSE Out(Validate(i.h, d.Out, ord))
  IN In(Validate(h, d.In, ord))

\* for _, srv := range d.ServiceDefs { srv.Validate() }
RECURSIVE ValidateServices(_, _, _, _)
ValidateServices(h, m, ks, ord) ==
  IF ks = <<>> THEN [h |-> h, m |-> m, err |-> NoErr]
  ELSE LET Rest(r) == IF r.err # NoErr THEN [h |-> r.h, m |-> m, err |-> r.err]
                      ELSE ValidateServices(r.h, [m EXCEPT ![Head(ks)] = r.d], Tail(ks), ord)
       IN Rest(ServiceDefValidate(h, m[Head(ks)], ord))

\* for _, del := range d.DelegateDefs { del.Validate() }
RECURSIVE ValidateDelegates(_, _, _, _)
ValidateDelegates(h, m, ks, ord) ==
  IF ks = <<>> THEN [h |-> h, m |-> m, err |-> NoErr]
  ELSE LET Rest(r) == IF r.err # NoErr THEN [h |-> r.h, m |-> m, err |-> r.err]
                      ELSE ValidateDelegates(r.h, [m EXCEPT ![Head(ks)] = r.d], Tail(ks), ord)
       IN Rest(DelegateDefValidate(h, m[Head(ks)], ord))

\* for _, insDef := range d.InstanceDefs { ... }, used the names met so far.
RECURSIVE ValidateInstances(_, _, _)
ValidateInstances(is, i, used) ==
  IF i > Len(is) THEN [is |-> is, err |-> NoErr]
  ELSE LET Rest(r) ==
             IF r.err # NoErr THEN [is |-> is, err |-> r.err]
             ELSE IF is[i].Name \in used
               THEN [is |-> [is EXCEPT ![i] = r.d],
                     err |-> "colliding instance names within same parent operator"]
             ELSE ValidateInstances([is EXCEPT ![i] = r.d], i + 1, used \cup {is[i].Name})
       IN Rest(InstanceDefValidate(is[i]))

OperatorDefValidate(h, d, ord, nord) ==
  LET Instances(h2, d2, n) ==
        IF n.err # NoErr THEN [h |-> h2, d |-> [d2 EXCEPT !.InstanceDefs = n.is], err |-> n.err]
        ELSE [h |-> h2, d |-> [d2 EXCEPT !.InstanceDefs = n.is, !.valid = TRUE],
              err |-> NoErr]
      Delegates(d1, l) ==
        IF l.err # NoErr THEN [h |-> l.h, d |-> [d1 EXCEPT !.DelegateDefs = l.m], err |-> l.err]
        ELSE Instances(l.h, [d1 EXCEPT !.DelegateDefs = l.m],
                       ValidateInstances(d.InstanceDefs, 1, {}))
      Services(s) ==
        IF s.err # NoErr THEN [h |-> s.h, d |-> [d EXCEPT !.ServiceDefs = s.m], err |-> s.err]
        ELSE Delegates([d EXCEPT !.ServiceDefs = s.m],
                       ValidateDelegates(s.h, d.DelegateDefs,
                                         KeysIn(DOMAIN d.DelegateDefs, nord), ord))
  IN Services(ValidateServices(h, d.ServiceDefs, KeysIn(DOMAIN d.ServiceDefs, nord), ord))

(***************************************************************************)
(* TypeDef.ApplyProperties (def.go:603-632).  Returns the heap, the error  *)
(* and whether the call ended in a panic (a nil TypeDef reached, or a      *)
(* panic of ExpandExpression).  The errors of ExpandExpression and of the  *)
(* calls on map entries are dropped, as the code drops them.  ord is the   *)
(* order of the range over d.Map: an entry written later under the same    *)
(* expanded key replaces the earlier one.                                  *)
(***************************************************************************)
Applied(h, e) == [h |-> h, err |-> e, panic |-> FALSE]

Panicked(h) == [h |-> h, err |-> NoErr, panic |-> TRUE]

\* parsed, _ := ExpandExpression(...)
Parsed(r) == IF r.err # NoErr THEN <<>> ELSE r.out

RECURSIVE ApplyProperties(_, _, _, _, _)
RECURSIVE ApplyEntries(_, _, _, _, _, _, _)
RECURSIVE ApplyExpanded(_, _, _, _, _, _, _, _)
\* A range that stores the entry itself under every expanded key.
ApplyExpandedShared(h, v, parsed, i, new, ps, pds, ord) ==
  IF parsed = <<>> THEN [h |-> h, m |-> new, panic |-> FALSE]
  ELSE IF v = NIL THEN [h |-> h, m |-> new, panic |-> TRUE]
  ELSE LET Rest(r) == IF r.panic THEN [h |-> r.h, m |-> new, panic |-> TRUE]
                      ELSE [h |-> r.h, m |-> [k \in {parsed[j] : j \in 1..Len(parsed)} |-> v] @@ new,
                            panic |-> FALSE]
       IN Rest(ApplyProperties(h, v, ps, pds, ord))

ApplyProperties(h, a, ps, pds, ord) ==
  IF a = NIL THEN Panicked(h)
  ELSE LET d == h[a]
           Key(parsed) == IF Len(parsed) # 1 THEN Applied(h, "generic must be 1")
                          ELSE Applied([h EXCEPT ![a].Generic = parsed[1]], "unknown type")
           Generic(r) == IF r.panic THEN Panicked(h) ELSE Key(Parsed(r))
           Entries(r) == IF r.panic THEN Panicked(r.h)
                         ELSE Applied([r.h EXCEPT ![a].Map = r.m], NoErr)
       IN IF d.Type \in {"primitive", "string", "number", "boolean", "trigger"}
            THEN Applied(h, NoErr)
          ELSE IF d.Type = "generic" THEN Generic(ExpandExpression(h, d.Generic, ps, pds))
          ELSE IF d.Type = "stream" THEN ApplyProperties(h, d.Stream, ps, pds, ord)
          ELSE IF d.Type = "map"
            THEN Entries(ApplyEntries(h, d.Map, KeysIn(DOMAIN d.Map, ord), NoMap, ps, pds, ord))
          ELSE Applied(h, "unknown type")

\* The range over d.Map (def.go:620-627) from key Head(ks) on; new is newMap.
ApplyEntries(h, m, ks, new, ps, pds, ord) ==
  IF ks = <<>> THEN [h |-> h, m |-> new, panic |-> FALSE]
  ELSE LET Rest(e) == IF e.panic THEN e
                      ELSE ApplyEntries(e.h, m, Tail(ks), e.m, ps, pds, ord)
           Keys(r) == IF r.panic THEN [h |-> h, m |-> new, panic |-> TRUE]
                      ELSE Rest(ApplyExpanded(h, m[Head(ks)], Parsed(r), 1, new, ps, pds, ord))
       IN Keys(ExpandExpression(h, Head(ks), ps, pds))

\* The range over parsed (def.go:622-626) from its i-th key on.
ApplyExpanded(h, v, parsed, i, new, ps, pds, ord) ==
  IF i > Len(parsed) THEN [h |-> h, m |-> new, panic |-> FALSE]
  ELSE IF v = NIL THEN [h |-> h, m |-> new, panic |-> TRUE]
  ELSE LET WithCopy(e) ==
             LET Rest(r) == IF r.panic THEN [h |-> r.h, m |-> new, panic |-> TRUE]
                            ELSE ApplyExpanded(r.h, v, parsed, i + 1,
                                               (parsed[i] :> e.a) @@ new, ps, pds, ord)
             IN Rest(ApplyProperties(e.h, e.a, ps, pds, ord))
       IN WithCopy(Store(Copy(h, h[v])))

(***************************************************************************)
(* Properties.Clean (def.go:688-692).  utils.CleanValue is not part of the *)
(* sources at hand; it is modelled from the documentation of               *)
(* SpecifyOperator, which has it normalise scalar values: an integer       *)
(* becomes a float64 of the same text, inside maps and slices too.         *)
(***************************************************************************)
RECURSIVE CleanValue(_)
CleanValue(v) ==
  IF v.kind = "int" THEN [v EXCEPT !.kind = "float64"]
  ELSE IF v.kind = "map" THEN [v EXCEPT !.m = [k \in DOMAIN v.m |-> CleanValue(v.m[k])]]
  ELSE IF v.kind = "slice" THEN [v EXCEPT !.s = [i \in 1..Len(v.s) |-> CleanValue(v.s[i])]]
  ELSE v

Clean(p) == [k \in DOMAIN p |-> CleanValue(p[k])]

(***************************************************************************)
(* OperatorDef.SpecifyOperator (def.go:216-308).  Returns the heap, the    *)
(* definition, the property bag (Clean writes into the caller's map), the  *)
(* error and whether the call ended the program (a panic or a stack        *)
(* overflow).  o holds the orders of the ranges over maps: o.ord of the    *)
(* keys of TypeDef maps, o.nord of service, delegate and property names,   *)
(* o.gord of generic identifiers.                                          *)
(***************************************************************************)
Specified(h, d, ps, e) == [h |-> h, d |-> d, p |-> ps, err |-> e, panic |-> FALSE]

Crashed(h, d, ps) == [h |-> h, d |-> d, p |-> ps, err |-> NoErr, panic |-> TRUE]

\* The addresses of In and Out of the services or delegates m, names in order ks.
RECURSIVE PortsOf(_, _)
PortsOf(m, ks) ==
  IF ks = <<>> THEN <<>> ELSE <<m[Head(ks)].In, m[Head(ks)].Out>> \o PortsOf(m, Tail(ks))

\* SpecifyGenerics(g) on each TypeDef of as in turn, the errors dropped
\* (def.go:224-234, 295-297).
RECURSIVE SpecifyAll(_, _, _, _)
\* A loop that returns behind the first TypeDef.
SpecifyAllFirstOnly(h, as, g, ids) ==
  IF as = <<>> THEN h ELSE SpecifyGenerics(h, Head(as), g, ids, 1)

SpecifyAll(h, as, g, ids) ==
  IF as = <<>> THEN h
  ELSE LET Rest(r) == IF r = Overflow THEN Overflow ELSE SpecifyAll(r, Tail(as), g, ids)
       IN Rest(SpecifyGenerics(h, Head(as), g, ids, 1))

\* The range over def.PropertyDefs (def.go:238-246) from name Head(ks) on.
RECURSIVE CheckProperties(_, _, _, _, _)
\* A check of presence alone.
CheckPropertiesPresent(h, pds, ps, ks, ord) ==
  IF \E i \in 1..Len(ks) : ks[i] \notin DOMAIN ps THEN "Missing property" ELSE NoErr

CheckProperties(h, pds, ps, ks, ord) ==
  IF ks = <<>> THEN NoErr
  ELSE IF Head(ks) \notin DOMAIN ps THEN "Missing property"
  ELSE LET Rest(e) == IF e # NoErr THEN e ELSE CheckProperties(h, pds, ps, Tail(ks), ord)
       IN Rest(VerifyData(h, h[pds[Head(ks)]], ps[Head(ks)], ord))

\* The range over parsed (def.go:251-258, 265-272) from its i-th name on:
\* copies of In and Out of port, properties applied, stored under each name.
RECURSIVE CopyPort(_, _, _, _, _, _, _, _)
CopyPort(h, port, parsed, i, new, ps, pds, ord) ==
  IF i > Len(parsed) THEN [h |-> h, m |-> new, panic |-> FALSE]
  ELSE LET WithIn(ai) ==
             LET WithOut(ao) ==
                   LET OutApplied(ro) ==
                         IF ro.panic THEN [h |-> ro.h, m |-> new, panic |-> TRUE]
                         ELSE CopyPort(ro.h, port, parsed, i + 1,
                                       (parsed[i] :> ServiceDef(ai.a, ao.a)) @@ new,
                                       ps, pds, ord)
                   IN OutApplied(ApplyProperties(ao.h, ao.a, ps, pds, ord))
                 InApplied(ri) ==
                   IF ri.panic THEN [h |-> ri.h, m |-> new, panic |-> TRUE]
                   ELSE WithOut(Store(Copy(ri.h, ri.h[port.Out])))
             IN InApplied(ApplyProperties(ai.h, ai.a, ps, pds, ord))
       IN WithIn(Store(Copy(h, h[port.In])))

\* The range over def.ServiceDefs or def.DelegateDefs (def.go:249-259,
\* 263-273) from name Head(ks) on; new is newSrvs or newDels.
RECURSIVE ExpandPorts(_, _, _, _, _, _, _)
ExpandPorts(h, m, ks, new, ps, pds, ord) ==
  IF ks = <<>> THEN [h |-> h, m |-> new, panic |-> FALSE]
  ELSE LET Rest(c) == IF c.panic THEN c
                      ELSE ExpandPorts(c.h, m, Tail(ks), c.m, ps, pds, ord)
           Names(r) == IF r.panic THEN [h |-> h, m |-> new, panic |-> TRUE]
                       ELSE Rest(CopyPort(h, m[Head(ks)], Parsed(r), 1, new, ps, pds, ord))
       IN Names(ExpandExpression(h, Head(ks), ps, pds))

\* strings.HasPrefix(s, "$")
HasPrefix(s) == Len(s) > 0 /\ s[1] = "$"

\* The range over childOpInsDef.Properties (def.go:278-293) from name
\* Head(ks) on: cps is the child's bag, ps the parent's.
RECURSIVE Propagate(_, _, _)
\* A range that leaves a name the parent lacks as it stands.
PropagateLenient(cps, ks, ps) ==
  [p |-> [k \in DOMAIN cps |->
            IF cps[k].kind = "string" /\ HasPrefix(cps[k].val) /\ Tail(cps[k].val) \in DOMAIN ps
            THEN ps[Tail(cps[k].val)] ELSE cps[k]],
   err |-> NoErr]

Propagate(cps, ks, ps) ==
  IF ks = <<>> THEN [p |-> cps, err |-> NoErr]
  ELSE LET v == cps[Head(ks)] IN
    IF v.kind # "string" \/ ~HasPrefix(v.val) THEN Propagate(cps, Tail(ks), ps)
    ELSE IF Tail(v.val) \in DOMAIN ps
      THEN Propagate([cps EXCEPT ![Head(ks)] = ps[Tail(v.val)]], Tail(ks), ps)
    ELSE [p |-> cps, err |-> "unknown property"]

\* The addresses a generics or property map m holds, names in order ks.
RECURSIVE TypesOf(_, _)
TypesOf(m, ks) == IF ks = <<>> THEN <<>> ELSE <<m[Head(ks)]>> \o TypesOf(m, Tail(ks))

RECURSIVE SpecifyOperator(_, _, _, _, _)
RECURSIVE SpecifyChildren(_, _, _, _, _, _)
\* The part of SpecifyOperator behind the validation (def.go:224-307).
SpecifyValid(h, d, g, ps, o) ==
  LET ids == KeysIn(DOMAIN g, o.gord)
      ports == PortsOf(d.ServiceDefs, KeysIn(DOMAIN d.ServiceDefs, o.nord))
                 \o PortsOf(d.DelegateDefs, KeysIn(DOMAIN d.DelegateDefs, o.nord))
                 \o TypesOf(d.PropertyDefs, KeysIn(DOMAIN d.PropertyDefs, o.nord))
      Children(p1, d2, c) ==
        IF c.panic THEN Crashed(c.h, [d2 EXCEPT !.InstanceDefs = c.is], p1)
        ELSE IF c.err # NoErr
          THEN Specified(c.h, [d2 EXCEPT !.InstanceDefs = c.is], p1, c.err)
        ELSE Specified(c.h, [d2 EXCEPT !.InstanceDefs = c.is, !.PropertyDefs = NoMap],
                       p1, NoErr)
      Delegates(p1, d1, l) ==
        IF l.panic THEN Crashed(l.h, d1, p1)
        ELSE Children(p1, [d1 EXCEPT !.DelegateDefs = l.m],
                      SpecifyChildren(l.h, d.InstanceDefs, 1, g, p1, o))
      Services(p1, s) ==
        IF s.panic THEN Crashed(s.h, d, p1)
        ELSE Delegates(p1, [d EXCEPT !.ServiceDefs = s.m],
                       ExpandPorts(s.h, d.DelegateDefs, KeysIn(DOMAIN d.DelegateDefs, o.nord),
                                   NoMap, p1, d.PropertyDefs, o.ord))
      Checked(h1, p1, e) ==
        IF e # NoErr THEN Specified(h1, d, p1, e)
        ELSE Services(p1, ExpandPorts(h1, d.ServiceDefs,
                                      KeysIn(DOMAIN d.ServiceDefs, o.nord),
                                      NoMap, p1, d.PropertyDefs, o.ord))
      Cleaned(h1, p1) ==
        IF h1 = Overflow THEN Crashed(h, d, ps)
        ELSE Checked(h1, p1, CheckProperties(h1, d.PropertyDefs, p1,
                                             KeysIn(DOMAIN d.PropertyDefs, o.nord), o.ord))
  IN Cleaned(SpecifyAll(h, ports, g, ids), Clean(ps))

SpecifyOperator(h, d, g, ps, o) ==
  LET Validated(v) == IF v.err # NoErr THEN Specified(v.h, v.d, ps, v.err)
                      ELSE SpecifyValid(v.h, v.d, g, ps, o)
  IN Validated(IF d.valid THEN [h |-> h, d |-> d, err |-> NoErr]
               ELSE OperatorDefValidate(h, d, o.ord, o.nord))

\* The range over def.InstanceDefs (def.go:276-303) from the i-th child on.
SpecifyChildren(h, is, i, g, ps, o) ==
  IF i > Len(is) THEN [h |-> h, is |-> is, err |-> NoErr, panic |-> FALSE]
  ELSE LET c == is[i]
           Child(is1, r) ==
             IF r.panic \/ r.err # NoErr
               THEN [h |-> r.h,
                     is |-> [is1 EXCEPT ![i].OperatorDef = r.d, ![i].Properties = r.p],
                     err |-> r.err, panic |-> r.panic]
             ELSE SpecifyChildren(r.h,
                                  [is1 EXCEPT ![i].OperatorDef = r.d, ![i].Properties = r.p],
                                  i + 1, g, ps, o)
           Generics(pr, is1, h1) ==
             IF h1 = Overflow THEN [h |-> h, is |-> is1, err |-> NoErr, panic |-> TRUE]
             ELSE Child(is1, SpecifyOperator(h1, c.OperatorDef, c.Generics, pr.p, o))
           Properties(pr) ==
             IF pr.err # NoErr
               THEN [h |-> h, is |-> [is EXCEPT ![i].Properties = pr.p], err |-> pr.err,
                     panic |-> FALSE]
             ELSE Generics(pr, [is EXCEPT ![i].Properties = pr.p],
                           SpecifyAll(h, TypesOf(c.Generics,
                                                 KeysIn(DOMAIN c.Generics, o.gord)),
                                      g, KeysIn(DOMAIN g, o.gord)))
       IN Properties(Propagate(c.Properties, KeysIn(DOMAIN c.Properties, o.nord), ps))

\* OperatorDef.GenericsSpecified (def.go:163-188), TRUE when it returns nil,
\* and the same of the definition of every child instance, recursively.
OperatorGenericsSpecified(h, d) ==
  /\ \A n \in DOMAIN d.ServiceDefs :
       /\ GenericsSpecified(h, h[d.ServiceDefs[n].In])
       /\ GenericsSpecified(h, h[d.ServiceDefs[n].Out])
  /\ \A n \in DOMAIN d.DelegateDefs :
       /\ GenericsSpecified(h, h[d.DelegateDefs[n].In])
       /\ GenericsSpecified(h, h[d.DelegateDefs[n].Out])
  /\ \A i \in 1..Len(d.InstanceDefs) :
       \A id \in DOMAIN d.InstanceDefs[i].Generics :
         GenericsSpecified(h, h[d.InstanceDefs[i].Generics[id]])

RECURSIVE GenericsSpecifiedDeep(_, _)
GenericsSpecifiedDeep(h, d) ==
  /\ OperatorGenericsSpecified(h, d)
  /\ \A i \in 1..Len(d.InstanceDefs) : GenericsSpecifiedDeep(h, d.InstanceDefs[i].OperatorDef)

(***************************************************************************)
(* SpecOperatorValidate: OperatorDef.Validate on an operator document.     *)
(***************************************************************************)
MaxInstances == 2

NameMain == <<"m">>

NameAux == <<"x">>

NameDlg == <<"d">>

\* Documents of a service or delegate: the trees of In and Out.
PortDoc(In, Out) == [In |-> In, Out |-> Out]

PortDocsV ==
  {PortDoc(TLeaf("number"), TLeaf("number")), PortDoc(TStreamNil, TLeaf("number")),
   PortDoc(TMap((KeyA :> <<TLeaf("number")>>) @@ (KeyB :> <<TLeaf("string")>>)),
           TLeaf("bogus"))}

InstanceDoc(Name, Operator, Properties, Generics, Def) ==
  [Name |-> Name, Operator |-> Operator, Properties |-> Properties,
   Generics |-> Generics, OperatorDef |-> Def]

OperatorDoc(S, D, I, P) ==
  [ServiceDefs |-> S, DelegateDefs |-> D, InstanceDefs |-> I, PropertyDefs |-> P]

EmptyDoc == OperatorDoc(NoMap, NoMap, <<>>, NoMap)

InstanceNamesV == {<<>>, <<"a">>, <<"b">>, <<"a", " ", "b">>, <<"a", "\t", "b">>, <<"a", "\n", "b">>}

InstanceDocsV ==
  {InstanceDoc(n, <<"o">>, NoMap, NoMap, EmptyDoc) : n \in InstanceNamesV}
  \cup {InstanceDoc(<<"a">>, o, NoMap, NoMap, EmptyDoc) : o \in {<<>>, <<"o", " ", "p">>}}

OperatorDocsV ==
  {OperatorDoc(S, D, I, NoMap) :
     S \in UNION {[ns -> PortDocsV] : ns \in SUBSET {NameMain, NameAux}},
     D \in UNION {[ns -> PortDocsV] : ns \in SUBSET {NameDlg}},
     I \in UNION {[1..n -> InstanceDocsV] : n \in 0..MaxInstances}}

InitOperatorValidate ==
  \E doc \in OperatorDocsV :
    \E b \in {BuildOperator(<<>>, doc)} :
    /\ heap = b.h
    /\ def = b.d
    /\ hist = [orig |-> doc]
    /\ pc = "op parsed"
    /\ err = NoErr
    /\ wires = Idle
    /\ td = NIL /\ cpy = NIL /\ gens = Idle /\ data = Idle /\ expr = Idle
    /\ props = Idle /\ propDefs = Idle /\ out = Idle

\* err := def.Validate()
DoOperatorValidate ==
  /\ pc = "op parsed"
  /\ \E ord \in KeyOrders(heap), nord \in Perms({NameMain, NameAux, NameDlg}) :
       \E r \in {OperatorDefValidate(heap, def, ord, nord)} :
       /\ heap' = r.h
       /\ def' = r.d
       /\ err' = r.err
  /\ pc' = "op validated"
  /\ UNCHANGED <<td, cpy, gens, data, expr, wires, props, propDefs, out, hist>>

NextOperatorValidate == DoOperatorValidate

SpecOperatorValidate == InitOperatorValidate /\ [][NextOperatorValidate]_vars

\* Some service or delegate of the document has an In or Out type that is
\* not well-formed.
InvalidPort(doc) ==
  \/ \E n \in DOMAIN doc.ServiceDefs :
       ~WellFormed(doc.ServiceDefs[n].In) \/ ~WellFormed(doc.ServiceDefs[n].Out)
  \/ \E n \in DOMAIN doc.DelegateDefs :
       ~WellFormed(doc.DelegateDefs[n].In) \/ ~WellFormed(doc.DelegateDefs[n].Out)

Whitespace == {" ", "\t", "\n"}

\* Some child instance has an empty name or one with a whitespace character.
BadInstanceName(doc) ==
  \E i \in 1..Len(doc.InstanceDefs) :
    \/ doc.InstanceDefs[i].Name = <<>>
    \/ \E c \in Whitespace : Contains(doc.InstanceDefs[i].Name, c)

\* Two child instances carry the same name.
CollidingNames(doc) ==
  \E i, j \in 1..Len(doc.InstanceDefs) :
    i # j /\ doc.InstanceDefs[i].Name = doc.InstanceDefs[j].Name

\* C9: OperatorDef.Validate returns an error and leaves the validity bit
\* false whenever some service or delegate In/Out type is invalid, some child
\* instance has an empty name or a name containing a space, tab or newline,
\* or two child instances carry the same name; it returns nil and sets the
\* validity bit only when none of these holds.
C9_OperatorValidateRejects ==
  pc = "op validated" =>
    LET bad == InvalidPort(hist.orig) \/ BadInstanceName(hist.orig)
                 \/ CollidingNames(hist.orig)
    IN /\ bad => (err # NoErr /\ ~def.valid)
       /\ (err = NoErr /\ def.valid) => ~bad

(***************************************************************************)
(* SpecOperator: SpecifyOperator on an operator document, a generics map   *)
(* and a property bag.                                                     *)
(***************************************************************************)
MaxChildren == 1
NameExpr == <<"{", "p", "}">>

\* In and Out types of the service of the parent.
InTypesS ==
  {TLeaf("number"), TGeneric(GenT), TStream(TGeneric(GenU)),
   TMap(KeyA :> <<TGeneric(GenT)>>), TMap(NameExpr :> <<TGeneric(GenT)>>),
   TGeneric(NameExpr)}

PortDocsS ==
  {PortDoc(in, TLeaf("string")) : in \in InTypesS}
  \cup {PortDoc(TLeaf("number"), TGeneric(GenU))}

\* A service name, a property schema and a property bag of the parent.
Setting(n, pds, ps) == [name |-> n, pds |-> pds, ps |-> ps]

SettingsS ==
  {Setting(NameMain, NoMap, NoMap),
   Setting(NameMain, NameP :> TLeaf("string"), NoMap),
   Setting(NameMain, NameP :> TLeaf("string"), NameP :> VString(GenT)),
   Setting(NameExpr, NameP :> TLeaf("number"), NameP :> VInt(Str("7"))),
   Setting(NameExpr, NameP :> TStream(TLeaf("string")),
           NameP :> VSlice(<<VString(Str("v")), VString(Str("w"))>>))}

\* The generics maps of a child instance and of the call.
ChildGenericsS == {NoMap, GenT :> TLeaf("number"), GenT :> TGeneric(GenT)}

GenericsS ==
  {NoMap, GenT :> TLeaf("number"), (GenT :> TLeaf("number")) @@ (GenU :> TLeaf("string")),
   (GenT :> TMap(KeyA :> <<TLeaf("number")>>)) @@ (GenU :> TLeaf("boolean")),
   (GenT :> TGeneric(GenU)) @@ (GenU :> TLeaf("number"))}

\* The definition of a child: one service with In type t, children is.
ChildDoc(t, pds, is) ==
  OperatorDoc(NameMain :> PortDoc(t, TLeaf("number")), NoMap, is, pds)

\* The child instances a parent may hold: a generic definition under every
\* generics map, a property handed down by name, and a child holding a
\* generic child of its own.
ChildrenS ==
  {InstanceDoc(<<>>, <<"o">>, NoMap, g, ChildDoc(TGeneric(GenT), NoMap, <<>>)) :
     g \in ChildGenericsS}
  \cup {InstanceDoc(<<>>, <<"o">>, NameP :> VString(<<"$">> \o NameP), NoMap,
                    ChildDoc(TLeaf("number"), NameP :> TLeaf("string"), <<>>))}
  \cup {InstanceDoc(<<>>, <<"o">>, NoMap, GenT :> TGeneric(GenT),
                    ChildDoc(TGeneric(GenT), NoMap,
                             <<InstanceDoc(<<"a">>, <<"o">>, NoMap, g,
                                           ChildDoc(TGeneric(GenU), NoMap, <<>>))>>)) :
          g \in {NoMap, GenU :> TGeneric(GenT)}}

\* The i-th child is named by its place.
ChildName(i) == <<"c">> \o [j \in 1..i |-> "i"]

\* A parent has one service; a parent without properties may have a
\* delegate too.
OperatorDocsS ==
  {OperatorDoc(st.name :> pt, D, [i \in DOMAIN I |-> [I[i] EXCEPT !.Name = ChildName(i)]],
               st.pds) :
     pt \in PortDocsS, st \in SettingsS,
     D \in {NoMap, NameMain :> PortDoc(TGeneric(GenT), TLeaf("number"))},
     I \in UNION {[1..n -> ChildrenS] : n \in 0..MaxChildren}}

\* Every name of a service, delegate or property in definition d, its
\* children included, and every identifier of their generics maps.
RECURSIVE NamesIn(_)
NamesIn(d) ==
  DOMAIN d.ServiceDefs \cup DOMAIN d.DelegateDefs \cup DOMAIN d.PropertyDefs
  \cup UNION {DOMAIN d.InstanceDefs[i].Properties \cup NamesIn(d.InstanceDefs[i].OperatorDef) :
                i \in 1..Len(d.InstanceDefs)}

RECURSIVE IdentifiersIn(_)
IdentifiersIn(d) ==
  UNION {DOMAIN d.InstanceDefs[i].Generics \cup IdentifiersIn(d.InstanceDefs[i].OperatorDef) :
           i \in 1..Len(d.InstanceDefs)}

InitOperator ==
  \E doc \in OperatorDocsS, st \in SettingsS, g \in GenericsS :
    /\ doc.PropertyDefs = st.pds
    /\ st.name \in DOMAIN doc.ServiceDefs
    /\ doc.DelegateDefs # NoMap =>
         (st.pds = NoMap /\ doc.ServiceDefs[st.name].In = TLeaf("number"))
    /\ \E b \in {BuildOperator(<<>>, doc)} :
       \E bg \in {BuildGenerics(b.h, g, SetToSeq(DOMAIN g))} :
       /\ def = b.d
       /\ gens = bg.g
       /\ heap = bg.h
       /\ props = st.ps
       /\ hist = [orig |-> doc, bind |-> g]
       /\ pc = "op parsed"
       /\ err = NoErr
       /\ wires = Idle
       /\ td = NIL /\ cpy = NIL /\ data = Idle /\ expr = Idle
       /\ propDefs = Idle /\ out = Idle

\* err := def.SpecifyOperator(gens, props)
DoSpecifyOperator ==
  /\ pc = "op parsed"
  /\ \E ord \in KeyOrders(heap), nord \in Perms(NamesIn(def)),
        gord \in Perms(DOMAIN gens \cup IdentifiersIn(def)) :
       \E r \in {SpecifyOperator(heap, def, gens, props,
                                   [ord |-> ord, nord |-> nord, gord |-> gord])} :
          /\ heap' = r.h
          /\ def' = r.d
          /\ props' = r.p
          /\ err' = r.err
          /\ pc' = IF r.panic THEN "panic" ELSE "op specified"
  /\ UNCHANGED <<td, cpy, gens, data, expr, wires, propDefs, out, hist>>

NextOperator == DoSpecifyOperator

SpecOperator == InitOperator /\ [][NextOperator]_vars

\* The generic identifiers of the In and Out types of the services and
\* delegates of document doc and of the generics maps of its child instances.
IdentifiersOf(doc) ==
  UNION {GenericsIn(doc.ServiceDefs[n].In) \cup GenericsIn(doc.ServiceDefs[n].Out) :
           n \in DOMAIN doc.ServiceDefs}
  \cup UNION {GenericsIn(doc.DelegateDefs[n].In) \cup GenericsIn(doc.DelegateDefs[n].Out) :
                n \in DOMAIN doc.DelegateDefs}
  \cup UNION {UNION {GenericsIn(doc.InstanceDefs[i].Generics[id]) :
                       id \in DOMAIN doc.InstanceDefs[i].Generics} :
                i \in 1..Len(doc.InstanceDefs)}

\* The identifiers occurring in doc and in its children.
RECURSIVE IdentifiersDeep(_)
IdentifiersDeep(doc) ==
  IdentifiersOf(doc)
  \cup UNION {IdentifiersDeep(doc.InstanceDefs[i].OperatorDef) : i \in 1..Len(doc.InstanceDefs)}

GenericFree(g) == \A id \in DOMAIN g : GenericsIn(g[id]) = {}

\* g binds every identifier occurring in doc, and the generics map of every
\* child instance binds every identifier occurring in the child's definition,
\* and so on below.
RECURSIVE BoundBelow(_, _)
BoundBelow(doc, ids) ==
  /\ IdentifiersOf(doc) \subseteq ids
  /\ \A i \in 1..Len(doc.InstanceDefs) :
       BoundBelow(doc.InstanceDefs[i].OperatorDef, DOMAIN doc.InstanceDefs[i].Generics)

\* C1 as stated: for every valid OperatorDef d, every generics map g binding
\* each generic identifier occurring in d and in its children to a
\* generic-free type, and every property bag satisfying d's schema, after
\* SpecifyOperator(g, p) has returned nil no generic node remains in any
\* service or delegate In/Out or child-instance generics binding of d, nor,
\* recursively, of any child's OperatorDef.
C1_GenericsSpecifiedAfter ==
  (/\ pc = "op specified" /\ err = NoErr
   /\ GenericFree(hist.bind)
   /\ IdentifiersDeep(hist.orig) \subseteq DOMAIN hist.bind)
  => GenericsSpecifiedDeep(heap, def)

\* C1 amended: the same, when moreover the generics map of every child
\* instance binds each generic identifier occurring in the child's
\* OperatorDef, recursively.
C1_GenericsSpecifiedWhenBoundBelow ==
  (/\ pc = "op specified" /\ err = NoErr
   /\ GenericFree(hist.bind)
   /\ BoundBelow(hist.orig, DOMAIN hist.bind))
  => GenericsSpecifiedDeep(heap, def)

\* A parent with generic ports and a child whose generics map hands the
\* parent's binding down to a generic child definition has been specified.
C1_Witness ==
  /\ pc = "op specified" /\ err = NoErr
  /\ GenericFree(hist.bind)
  /\ BoundBelow(hist.orig, DOMAIN hist.bind)
  /\ \E n \in DOMAIN hist.orig.ServiceDefs : GenericsIn(hist.orig.ServiceDefs[n].In) # {}
  /\ \E i \in 1..Len(hist.orig.InstanceDefs) :
       /\ \E id \in DOMAIN hist.orig.InstanceDefs[i].Generics :
            GenericsIn(hist.orig.InstanceDefs[i].Generics[id]) # {}
       /\ IdentifiersOf(hist.orig.InstanceDefs[i].OperatorDef) # {}
  /\ GenericsSpecifiedDeep(heap, def)

(***************************************************************************)
(* SpecApply: ApplyProperties on a TypeDef, a property bag and a schema.   *)
(* The bag and the schema hold or lack the names p and x as in SpecExpand, *)
(* a stream-typed p holding strings of ElemsA.                             *)
(***************************************************************************)
MaxElemsA == 2

ElemsA == {VString(Str("v")), VString(Str("w")), VString(NameExpr)}

OptionsA ==
  {Opt(<<>>, <<>>), Opt(<<VString(Str("v"))>>, <<>>),
   Opt(<<VString(Str("v"))>>, <<TLeaf("string")>>),
   Opt(<<VString(Str("v"))>>, <<TStream(TLeaf("string"))>>)}
  \cup {Opt(<<VSlice(vs)>>, <<TStream(TLeaf("string"))>>) :
          vs \in UNION {[1..n -> ElemsA] : n \in 0..MaxElemsA}}

\* The entries of the maps: a leaf, a generic, a stream, maps with a plain
\* and with a placeholder key, and a null entry.
EntriesA ==
  {<<>>, <<TLeaf("number")>>, <<TGeneric(GenT)>>, <<TStream(TLeaf("string"))>>,
   <<TMap(KeyA :> <<TLeaf("number")>>)>>, <<TMap(NameExpr :> <<TLeaf("boolean")>>)>>}

KeysA == {NameExpr, KeyA, Str("v"), <<"{", "x", "}">>}

MapsA ==
  {TMap(k :> e) : k \in KeysA, e \in EntriesA}
  \cup {TMap((NameExpr :> e) @@ (k :> <<TLeaf("string")>>)) :
          k \in KeysA \ {NameExpr}, e \in EntriesA}

TypesA ==
  MapsA \cup {TStream(t) : t \in MapsA}
  \cup {TLeaf("number"), TLeaf("binary"), TLeaf("trigger"), TGeneric(GenT), TGeneric(NameExpr),
        TStreamNil, TMap(NoMap)}

InitApply ==
  \E t \in TypesA, op \in OptionsA, ox \in OptionsX :
    \E b \in {BuildAt(<<>>, t)} :
    \E g \in {BuildGenerics(b.h, Schema(op, ox), SetToSeq(DOMAIN Schema(op, ox)))} :
    /\ heap = g.h
    /\ td = b.a
    /\ propDefs = g.g
    /\ props = Bag(op, ox)
    /\ hist = [orig |-> t]
    /\ pc = "call"
    /\ err = NoErr
    /\ wires = Idle
    /\ cpy = NIL /\ gens = Idle /\ data = Idle /\ expr = Idle /\ out = Idle /\ def = Idle

\* err := td.ApplyProperties(props, propDefs)
DoApplyProperties ==
  /\ pc = "call"
  /\ \E ord \in KeyOrders(heap) :
       \E r \in {ApplyProperties(heap, td, props, propDefs, ord)} :
          /\ heap' = r.h
          /\ err' = r.err
          /\ pc' = IF r.panic THEN "panic" ELSE "applied"
  /\ UNCHANGED <<td, cpy, gens, data, expr, wires, props, propDefs, out, def, hist>>

NextApply == DoApplyProperties

SpecApply == InitApply /\ [][NextApply]_vars

\* The texts of the elements of slice v.
ElementsOf(v) == {v.s[i].val : i \in 1..Len(v.s)}

\* No key and no generic identifier of tree t holds a placeholder.
RECURSIVE PlaceholderFree(_)
PlaceholderFree(t) ==
  /\ NoPlaceholder(t.Generic)
  /\ t.Stream # <<>> => PlaceholderFree(t.Stream[1])
  /\ \A k \in DOMAIN t.Map :
       NoPlaceholder(k) /\ (t.Map[k] # <<>> => PlaceholderFree(t.Map[k][1]))

\* The nodes of the TypeDef at address a.
Own(h, a) == Below(h, a) \cup {a}

\* td is a map with an entry under {p}, and p is a stream-typed property
\* holding distinct strings.
PlaceholderKeyCase ==
  /\ hist.orig.Type = "map"
  /\ NameExpr \in DOMAIN hist.orig.Map
  /\ hist.orig.Map[NameExpr] # <<>>
  /\ NameP \in DOMAIN props \cap DOMAIN propDefs
  /\ heap[propDefs[NameP]].Type = "stream"
  /\ props[NameP].kind = "slice"
  /\ \A i \in 1..Len(props[NameP].s) : props[NameP].s[i].kind = "string"
  /\ Cardinality(ElementsOf(props[NameP])) = Len(props[NameP].s)

\* C12: for a map TypeDef with an entry under the key {p}, p a stream-typed
\* property of n distinct strings: after ApplyProperties the map holds an
\* entry for each element of p, the entry under {p} is there only as the one
\* of an element that reads {p}, the entries of two elements share no node,
\* and when {p} was the only key the call returns with exactly n entries,
\* each of the shape of the original entry (when that has no placeholder).
C12_PlaceholderKeyExpands ==
  (pc \in {"applied", "panic"} /\ PlaceholderKeyCase) =>
    LET m == heap[td].Map
        els == ElementsOf(props[NameP])
        child == hist.orig.Map[NameExpr][1]
    IN /\ DOMAIN hist.orig.Map = {NameExpr} =>
            /\ pc = "applied"
            /\ DOMAIN m = els
            /\ Cardinality(DOMAIN m) = Len(props[NameP].s)
            /\ PlaceholderFree(child) => \A k \in els : Shape(heap, m[k]) = child
       /\ pc = "applied" =>
            /\ els \subseteq DOMAIN m
            /\ NameExpr \in DOMAIN m => NameExpr \in els
            /\ \A k \in els : m[k] # NIL
            /\ \A k1, k2 \in els : k1 # k2 => Own(heap, m[k1]) \cap Own(heap, m[k2]) = {}

\* A map whose one entry, a map itself, stood under {p} has been expanded
\* by a stream of two strings.
C12_Witness ==
  /\ pc = "applied"
  /\ PlaceholderKeyCase
  /\ hist.orig = TMap(NameExpr :> <<TMap(KeyA :> <<TLeaf("number")>>)>>)
  /\ Len(props[NameP].s) = 2
  /\ Cardinality(DOMAIN heap[td].Map) = 2

(***************************************************************************)
(* SpecProperties: SpecifyOperator on definitions whose names, map keys    *)
(* and child properties refer to properties, with bags that hold, lack or  *)
(* mistype them.  The call has no generics.                                *)
(***************************************************************************)
MaxChildrenP == 1

NameZ == Str("z")

\* The schema and the bag of the parent: p undeclared, declared and absent,
\* declared and ill-typed, declared and well-typed.
SettingsP ==
  {Setting(NameMain, NoMap, NoMap),
   Setting(NameMain, NoMap, NameP :> VString(Str("v"))),
   Setting(NameMain, NameP :> TLeaf("string"), NoMap),
   Setting(NameMain, NameP :> TLeaf("number"), NameP :> VString(Str("v"))),
   Setting(NameMain, NameP :> TLeaf("string"), NameP :> VString(Str("v"))),
   Setting(NameMain, NameP :> TLeaf("number"), NameP :> VInt(Str("7"))),
   Setting(NameMain, NameP :> TStream(TLeaf("string")),
           NameP :> VSlice(<<VString(Str("v")), VInt(Str("7"))>>)),
   Setting(NameMain, NameP :> TStream(TLeaf("string")),
           NameP :> VSlice(<<VString(Str("v")), VString(Str("w"))>>))}

\* The service of the parent: a plain or a placeholder name, a leaf or a map
\* with a placeholder key.
ServicesP ==
  {n :> PortDoc(t, TLeaf("string")) :
     n \in {NameMain, NameExpr},
     t \in {TLeaf("number"), TMap(NameExpr :> <<TLeaf("number")>>)}}

DelegatesP == {NoMap, NameExpr :> PortDoc(TLeaf("number"), TLeaf("number"))}

\* The definition of a child: it declares a string property p and names its
\* service by it.
ChildDocP ==
  OperatorDoc(NameExpr :> PortDoc(TLeaf("number"), TLeaf("number")), NoMap, <<>>,
              NameP :> TLeaf("string"))

\* The child instances: p handed down from the parent's p, from a name z no
\* bag has, given as a plain text, and not given.
ChildrenP ==
  {InstanceDoc(<<>>, <<"o">>, ps, NoMap, ChildDocP) :
     ps \in {NameP :> VString(<<"$">> \o NameP), NameP :> VString(<<"$">> \o NameZ),
             NameP :> VString(Str("w")), NoMap}}

OperatorDocsP ==
  {OperatorDoc(S, D, [i \in DOMAIN I |-> [I[i] EXCEPT !.Name = ChildName(i)]], st.pds) :
     S \in ServicesP, D \in DelegatesP, st \in SettingsP,
     I \in UNION {[1..n -> ChildrenP] : n \in 0..MaxChildrenP}}

InitProperties ==
  \E doc \in OperatorDocsP, st \in SettingsP :
    /\ doc.PropertyDefs = st.pds
    /\ \E b \in {BuildOperator(<<>>, doc)} :
       /\ def = b.d
       /\ heap = b.h
       /\ gens = NoMap
       /\ props = st.ps
       /\ hist = [orig |-> doc, bind |-> NoMap, bag |-> st.ps]
       /\ pc = "op parsed"
       /\ err = NoErr
       /\ wires = Idle
       /\ td = NIL /\ cpy = NIL /\ data = Idle /\ expr = Idle
       /\ propDefs = Idle /\ out = Idle

SpecProperties == InitProperties /\ [][NextOperator]_vars

\* Value v conforms to the type of tree t: VerifyData returns nil.
Conforms(t, v) ==
  \E b \in {BuildAt(<<>>, t)} : \A ord \in KeyOrders(b.h) : VerifyData(b.h, b.h[b.a], v, ord) = NoErr

\* A property the schema declares is absent from the bag or ill-typed in it.
UnsatisfiedSchema(pds, ps) ==
  \E n \in DOMAIN pds : n \notin DOMAIN ps \/ ~Conforms(pds[n], ps[n])

\* C13: whenever a property declared in the schema of the definition is
\* absent from the bag or present with a value that does not conform to its
\* declared type, SpecifyOperator returns an error and leaves the schema in
\* place.
C13_UnsatisfiedSchemaIsError ==
  (pc \in {"op specified", "panic"} /\ UnsatisfiedSchema(hist.orig.PropertyDefs, hist.bag)) =>
    /\ pc = "op specified"
    /\ err # NoErr
    /\ DOMAIN def.PropertyDefs = DOMAIN hist.orig.PropertyDefs
    /\ \A n \in DOMAIN def.PropertyDefs :
         Shape(heap, def.PropertyDefs[n]) = hist.orig.PropertyDefs[n]

\* A call with a declared number property holding a text has returned.
C13_Witness ==
  /\ pc = "op specified"
  /\ err # NoErr
  /\ NameP \in DOMAIN hist.orig.PropertyDefs \cap DOMAIN hist.bag
  /\ ~Conforms(hist.orig.PropertyDefs[NameP], hist.bag[NameP])

\* The document of the definition d in heap h.
RECURSIVE DocOf(_, _)
DocOf(h, d) ==
  OperatorDoc([n \in DOMAIN d.ServiceDefs |->
                 PortDoc(Shape(h, d.ServiceDefs[n].In), Shape(h, d.ServiceDefs[n].Out))],
              [n \in DOMAIN d.DelegateDefs |->
                 PortDoc(Shape(h, d.DelegateDefs[n].In), Shape(h, d.DelegateDefs[n].Out))],
              [i \in 1..Len(d.InstanceDefs) |->
                 InstanceDoc(d.InstanceDefs[i].Name, d.InstanceDefs[i].Operator,
                             d.InstanceDefs[i].Properties,
                             [id \in DOMAIN d.InstanceDefs[i].Generics |->
                                Shape(h, d.InstanceDefs[i].Generics[id])],
                             DocOf(h, d.InstanceDefs[i].OperatorDef))],
              [n \in DOMAIN d.PropertyDefs |-> Shape(h, d.PropertyDefs[n])])

\* Value v is a string of the form $name.
IsReference(v) == v.kind = "string" /\ HasPrefix(v.val)

\* The properties of the i-th child of the document that refer to the
\* parent's bag, and those of them that name a property the bag lacks.
References(i) ==
  {n \in DOMAIN hist.orig.InstanceDefs[i].Properties :
     IsReference(hist.orig.InstanceDefs[i].Properties[n])}

Dangling(i) ==
  {n \in References(i) : Tail(hist.orig.InstanceDefs[i].Properties[n].val) \notin DOMAIN hist.bag}

\* The definition of the i-th child is as it was parsed.
Unspecialized(i) ==
  /\ ~def.InstanceDefs[i].OperatorDef.valid
  /\ DocOf(heap, def.InstanceDefs[i].OperatorDef) = hist.orig.InstanceDefs[i].OperatorDef

RECURSIVE KeysOfTree(_)
KeysOfTree(t) ==
  DOMAIN t.Map
  \cup (IF t.Stream = <<>> THEN {} ELSE KeysOfTree(t.Stream[1]))
  \cup UNION {IF t.Map[k] = <<>> THEN {} ELSE KeysOfTree(t.Map[k][1]) : k \in DOMAIN t.Map}

\* The names of the services and delegates of document doc and the map keys
\* of their In and Out types.
ExpandedTexts(doc) ==
  DOMAIN doc.ServiceDefs \cup DOMAIN doc.DelegateDefs
  \cup UNION {KeysOfTree(doc.ServiceDefs[n].In) \cup KeysOfTree(doc.ServiceDefs[n].Out) :
                n \in DOMAIN doc.ServiceDefs}
  \cup UNION {KeysOfTree(doc.DelegateDefs[n].In) \cup KeysOfTree(doc.DelegateDefs[n].Out) :
                n \in DOMAIN doc.DelegateDefs}

\* C15: whenever a service name, a delegate name or a map key inside a
\* service or delegate type holds a placeholder {name} for a property that
\* is not in the property bag, SpecifyOperator returns an error; it does not
\* return nil with that service, delegate or map entry dropped.
C15_MissingPlaceholderIsError ==
  (/\ pc \in {"op specified", "panic"}
   /\ \E t \in ExpandedTexts(hist.orig) : \E n \in PlaceholderNames(t) : n \notin DOMAIN hist.bag)
    => (pc = "op specified" /\ err # NoErr)

(***************************************************************************)
(* Operators and ports at run time.  core.Operator and core.Port are not   *)
(* part of the sources at hand; they are modelled from the data model of   *)
(* the documentation: an operator owns its name, the port trees of its     *)
(* services and delegates (one In and one Out tree each, of the shape of   *)
(* the TypeDef) and its children; a port has a kind, an owning operator,   *)
(* an optional delegate tag, a direction, and for a stream one substream   *)
(* child, for a map children keyed by name.  A port is named here by its   *)
(* operator, its side, its direction and its path from the root of the     *)
(* tree, and carries the type of the tree below it.                        *)
(***************************************************************************)
NoOperator == <<>>

NoPort == <<>>

Operator(name, services, delegates, children) ==
  [name |-> name, services |-> services, delegates |-> delegates, children |-> children]

Port(o, side, name, in, path, t) ==
  [op |-> o, side |-> side, name |-> name, in |-> in, path |-> path, t |-> t]

\* o.Service(name), o.Delegate(name), par.Child(name): nil when there is none.
Service(o, n) == IF n \in DOMAIN o.services THEN <<o.services[n]>> ELSE <<>>

Delegate(o, n) == IF n \in DOMAIN o.delegates THEN <<o.delegates[n]>> ELSE <<>>

Child(o, n) == IF n \in DOMAIN o.children THEN o.children[n] ELSE NoOperator

\* srv.In(), srv.Out(), dlg.In(), dlg.Out(): the root port of the tree.
RootPort(o, side, n, in) ==
  Port(o.name, side, n, in, <<>>,
       IF side = "service" THEN (IF in THEN o.services[n].In ELSE o.services[n].Out)
       ELSE (IF in THEN o.delegates[n].In ELSE o.delegates[n].Out))

\* p.Stream(): the substream child, nil for a port that is no stream.
PortStream(p) ==
  IF p.t.Type = "stream" /\ p.t.Stream # <<>>
  THEN [p EXCEPT !.path = @ \o <<Str("~")>>, !.t = p.t.Stream[1]]
  ELSE NoPort

\* p.Map(k): the child under key k, nil when there is none.
PortMap(p, k) ==
  IF k \in DOMAIN p.t.Map /\ p.t.Map[k] # <<>>
  THEN [p EXCEPT !.path = @ \o <<k>>, !.t = p.t.Map[k][1]]
  ELSE NoPort

(***************************************************************************)
(* ParsePortReference (slang.go:129-262).  Returns the port and the error. *)
(***************************************************************************)
Found(p) == [p |-> p, err |-> NoErr]

Failed(e) == [p |-> NoPort, err |-> e]

\* strings.Split(s, c) for a one-character c.
RECURSIVE Split(_, _)
Split(s, c) ==
  LET At(i) == <<SubSeq(s, 1, i - 1)>> \o Split(SubSeq(s, i + 1, Len(s)), c)
  IN IF Contains(s, c) THEN At(Least(Places(s, c))) ELSE <<s>>

\* o := par or par.Child(opName) (slang.go:180-187, 203-210)
OperatorOf(opName, par) == IF opName = <<>> THEN par ELSE Child(par, opName)

\* The branch of a delegate reference (slang.go:174-196).
DelegateOf(opSplit, in, par) ==
  LET Of(o) ==
        IF o = NoOperator THEN Failed("operator has no child")
        ELSE IF Delegate(o, opSplit[2]) # <<>> THEN Found(RootPort(o, "delegate", opSplit[2], in))
        ELSE Failed("operator has no delegate")
  IN IF Len(opSplit) # 2 THEN Failed("connection string malformed (2)")
     ELSE Of(OperatorOf(opSplit[1], par))

\* The branch of a service reference (slang.go:197-219).
ServiceOf(opSplit, in, par) ==
  LET Of(o) ==
        IF o = NoOperator THEN Failed("operator has no child")
        ELSE IF Service(o, opSplit[1]) # <<>> THEN Found(RootPort(o, "service", opSplit[1], in))
        ELSE Failed("operator has no service")
  IN IF Len(opSplit) # 2 THEN Failed("connection string malformed (3)")
     ELSE Of(OperatorOf(opSplit[2], par))

\* The operator and the root port opPart selects (slang.go:162-231).
ResolveOperatorPart(opPart, in, par) ==
  IF opPart = <<>> THEN Found(RootPort(par, "service", NameMain, in))
  ELSE IF Contains(opPart, ".") /\ Contains(opPart, "@")
    THEN Failed("cannot reference both service and delegate")
  ELSE IF Contains(opPart, ".") THEN DelegateOf(Split(opPart, "."), in, par)
  ELSE IF Contains(opPart, "@") THEN ServiceOf(Split(opPart, "@"), in, par)
  ELSE IF Child(par, opPart) = NoOperator THEN Failed("operator has no child")
  ELSE Found(RootPort(Child(par, opPart), "service", NameMain, in))

\* The loop over pathSplit (slang.go:238-259) from its i-th segment on.
RECURSIVE Descend(_, _, _)
\* A loop that stays where it is when a segment cannot be followed.
DescendLenient(p, pathSplit, i) ==
  IF i > Len(pathSplit) THEN Found(p)
  ELSE IF pathSplit[i] = Str("~") THEN
    Descend(IF PortStream(p) = NoPort THEN p ELSE PortStream(p), pathSplit, i + 1)
  ELSE Descend(IF p.t.Type # "map" \/ PortMap(p, pathSplit[i]) = NoPort THEN p
               ELSE PortMap(p, pathSplit[i]), pathSplit, i + 1)

Descend(p, pathSplit, i) ==
  IF i > Len(pathSplit) THEN Found(p)
  ELSE IF pathSplit[i] = Str("~") THEN
    IF PortStream(p) = NoPort THEN Failed("descending too deep (stream)")
    ELSE Descend(PortStream(p), pathSplit, i + 1)
  ELSE IF p.t.Type # "map" THEN Failed("descending too deep (map)")
  ELSE IF PortMap(p, pathSplit[i]) = NoPort THEN Failed("unknown port")
  ELSE Descend(PortMap(p, pathSplit[i]), pathSplit, i + 1)

\* slang.go:154-161 and 233-261, refSplit being the reference split at sep.
ParseSplit(refSplit, in, opIdx, portIdx, par) ==
  LET Path(r, pathSplit) ==
        IF r.err # NoErr THEN r
        ELSE IF Len(pathSplit) = 1 /\ pathSplit[1] = <<>> THEN r
        ELSE Descend(r.p, pathSplit, 1)
  IN IF Len(refSplit) # 2 THEN Failed("connection string malformed (1)")
     ELSE Path(ResolveOperatorPart(refSplit[opIdx], in, par), Split(refSplit[portIdx], "."))

\* A parser that reads the operator part before either separator.
ParsePortReferenceOperatorFirst(refStr, par) ==
  IF par = NoOperator THEN Failed("operator must not be nil")
  ELSE IF Len(refStr) = 0 THEN Failed("empty connection string")
  ELSE IF Contains(refStr, "(") THEN ParseSplit(Split(refStr, "("), TRUE, 1, 2, par)
  ELSE IF Contains(refStr, ")") THEN ParseSplit(Split(refStr, ")"), FALSE, 1, 2, par)
  ELSE Failed("cannot derive direction")

ParsePortReference(refStr, par) ==
  IF par = NoOperator THEN Failed("operator must not be nil")
  ELSE IF Len(refStr) = 0 THEN Failed("empty connection string")
  ELSE IF Contains(refStr, "(") THEN ParseSplit(Split(refStr, "("), TRUE, 2, 1, par)
  ELSE IF Contains(refStr, ")") THEN ParseSplit(Split(refStr, ")"), FALSE, 1, 2, par)
  ELSE Failed("cannot derive direction")

(***************************************************************************)
(* SpecReference: ParsePortReference on a reference and an operator.  A    *)
(* reference is written from its parts (the operator, the service or       *)
(* delegate, the separator, the path), the operator part before or behind  *)
(* the separator; other texts have no separator, two of them, or both @    *)
(* and the dot in the operator part.                                       *)
(***************************************************************************)
MaxPathLen == 2

NameChild == Str("c")

NameSrv == Str("s")

NameUnknown == Str("x")

\* The child c and its parent: a main service, a service s and a delegate d.
ChildR ==
  Operator(NameChild,
           (NameMain :> PortDoc(TMap(KeyA :> <<TStream(TMap(KeyA :> <<TLeaf("number")>>))>>),
                                TStream(TMap(KeyA :> <<TLeaf("string")>>))))
           @@ (NameSrv :> PortDoc(TLeaf("number"),
                                  TMap((KeyA :> <<TLeaf("number")>>)
                                       @@ (KeyB :> <<TStream(TLeaf("string"))>>)))),
           NameDlg :> PortDoc(TStream(TStream(TLeaf("number"))),
                              TMap(KeyA :> <<TMap(KeyB :> <<TLeaf("boolean")>>)>>)),
           NoMap)

ParentR ==
  Operator(<<>>,
           (NameMain :> PortDoc(TMap((KeyA :> <<TStream(TLeaf("string"))>>)
                                     @@ (NameChild :> <<TLeaf("number")>>)),
                                TStream(TMap(KeyB :> <<TLeaf("boolean")>>))))
           @@ (NameSrv :> PortDoc(TStream(TLeaf("number")), TLeaf("trigger"))),
           NameDlg :> PortDoc(TMap(KeyA :> <<TLeaf("number")>>), TStream(TLeaf("binary"))),
           NameChild :> ChildR)

OperatorsR == {NoOperator, ParentR}

Segments == {KeyA, KeyB, Str("~")}

PathsR == UNION {[1..n -> Segments] : n \in 0..MaxPathLen}

\* The parts of a reference.  op is <<>> for the parent; side is "main",
\* "service" or "delegate"; first is TRUE when the operator part is written
\* before the separator.
Reference(form, op, side, name, sep, path, first) ==
  [form |-> form, op |-> op, side |-> side, name |-> name, sep |-> sep, path |-> path,
   first |-> first]

ReferencesR ==
  {Reference(form, op, sd.side, sd.name, sep, path, first) :
     form \in {"reference"}, op \in {<<>>, NameChild, NameUnknown},
     sd \in {[side |-> "main", name |-> NameMain]}
            \cup {[side |-> "service", name |-> n] : n \in {NameMain, NameSrv, NameUnknown}}
            \cup {[side |-> "delegate", name |-> n] : n \in {NameDlg, NameUnknown}},
     sep \in {"(", ")"}, path \in PathsR, first \in BOOLEAN}
  \cup {Reference(form, NameChild, "service", NameSrv, sep, <<KeyA>>, first) :
          form \in {"no separator", "two separators", "service and delegate", "empty"},
          sep \in {"(", ")"}, first \in BOOLEAN}

\* The segments of a path joined by dots.
RECURSIVE Join(_)
Join(path) ==
  IF path = <<>> THEN <<>>
  ELSE IF Len(path) = 1 THEN path[1]
  ELSE path[1] \o <<".">> \o Join(Tail(path))

OperatorPart(r) ==
  IF r.form = "service and delegate" THEN r.name \o <<"@">> \o r.op \o <<".">> \o NameDlg
  ELSE IF r.side = "main" THEN r.op
  ELSE IF r.side = "service" THEN r.name \o <<"@">> \o r.op
  ELSE r.op \o <<".">> \o r.name

\* The text of reference r.
Text(r) ==
  IF r.form = "empty" THEN <<>>
  ELSE IF r.form = "no separator" THEN OperatorPart(r) \o Join(r.path)
  ELSE IF r.form = "two separators"
    THEN OperatorPart(r) \o <<r.sep>> \o Join(r.path) \o <<r.sep>>
  ELSE IF r.first THEN OperatorPart(r) \o <<r.sep>> \o Join(r.path)
  ELSE Join(r.path) \o <<r.sep>> \o OperatorPart(r)

InitReference ==
  \E r \in ReferencesR, par \in OperatorsR :
    /\ expr = Text(r)
    /\ def = par
    /\ hist = r
    /\ out = NoPort
    /\ pc = "reference"
    /\ err = NoErr
    /\ wires = Idle
    /\ heap = <<>> /\ td = NIL /\ cpy = NIL /\ gens = Idle /\ data = Idle
    /\ props = Idle /\ propDefs = Idle

\* out, err := ParsePortReference(expr, def)
DoParsePortReference ==
  /\ pc = "reference"
  /\ \E r \in {ParsePortReference(expr, def)} :
       /\ out' = r.p
       /\ err' = r.err
  /\ pc' = "reference parsed"
  /\ UNCHANGED <<heap, td, cpy, gens, data, expr, wires, props, propDefs, def, hist>>

NextReference == DoParsePortReference

SpecReference == InitReference /\ [][NextReference]_vars

\* The tree reached from tree t along path: <<>> when a segment asks for the
\* stream child of a tree that is no stream, or for a map entry that is not
\* there.
RECURSIVE Walk(_, _)
Walk(t, path) ==
  IF path = <<>> THEN <<t>>
  ELSE IF Head(path) = Str("~") THEN
    IF t.Type = "stream" /\ t.Stream # <<>> THEN Walk(t.Stream[1], Tail(path)) ELSE <<>>
  ELSE IF t.Type = "map" /\ Head(path) \in DOMAIN t.Map /\ t.Map[Head(path)] # <<>>
    THEN Walk(t.Map[Head(path)][1], Tail(path))
  ELSE <<>>

\* The operator, the side and the tree the parts of reference r name.
Designated(r, par) ==
  IF r.op = <<>> THEN par
  ELSE IF r.op \in DOMAIN par.children THEN par.children[r.op]
  ELSE NoOperator

SideOf(r, o) ==
  IF r.side = "delegate" THEN (IF r.name \in DOMAIN o.delegates THEN <<o.delegates[r.name]>> ELSE <<>>)
  ELSE (IF r.name \in DOMAIN o.services THEN <<o.services[r.name]>> ELSE <<>>)

TreeOf(r, side) == IF r.sep = "(" THEN side.In ELSE side.Out

Resolvable(r, par) ==
  /\ par # NoOperator
  /\ r.form = "reference"
  /\ Designated(r, par) # NoOperator
  /\ SideOf(r, Designated(r, par)) # <<>>
  /\ Walk(TreeOf(r, SideOf(r, Designated(r, par))[1]), r.path) # <<>>

ExpectedPort(r, par) ==
  Port(Designated(r, par).name, IF r.side = "delegate" THEN "delegate" ELSE "service", r.name,
       r.sep = "(", r.path, Walk(TreeOf(r, SideOf(r, Designated(r, par))[1]), r.path)[1])

\* C16 as stated: a reference written operator part, separator, path part,
\* for either separator, whose parts name an existing port, is resolved to
\* that port: the In tree for "(", the Out tree for ")", of the parent's or
\* the child's main service, named service or delegate, descended along the
\* path.
C16_OperatorPartFirst ==
  (pc = "reference parsed" /\ hist.first /\ Resolvable(hist, def)) =>
    (err = NoErr /\ out = ExpectedPort(hist, def))

\* C16 amended: the same for a reference written operator part, ")", path
\* part, or path part, "(", operator part.
C16_OperatorPartAtTheBracket ==
  (pc = "reference parsed" /\ hist.first = (hist.sep = ")") /\ Resolvable(hist, def)) =>
    (err = NoErr /\ out = ExpectedPort(hist, def))

\* The reference ~.~(c.d has been resolved to the stream inside the stream
\* of the In tree of delegate d of child c.
C16_Witness ==
  /\ pc = "reference parsed"
  /\ hist.form = "reference" /\ ~hist.first /\ hist.sep = "("
  /\ hist.op = NameChild /\ hist.side = "delegate" /\ hist.name = NameDlg
  /\ hist.path = <<Str("~"), Str("~")>>
  /\ err = NoErr
  /\ out = Port(NameChild, "delegate", NameDlg, TRUE, hist.path, TLeaf("number"))

\* C17: ParsePortReference returns an error and no port when the operator is
\* nil, when the reference is empty, has no separator, or has both @ and the
\* dot in its operator part, and when the child, the service, the delegate
\* or a segment of the path it names does not exist (a map key that is not
\* there, ~ on a port that is no stream, an identifier on a port that is no
\* map).
C17_BadReferenceIsError ==
  (/\ pc = "reference parsed"
   /\ \/ def = NoOperator
      \/ hist.form # "reference"
      \/ hist.first = (hist.sep = ")") /\ ~Resolvable(hist, def))
    => (err # NoErr /\ out = NoPort)

\* The reference c)~.b, whose path asks for a key the map has not, has been
\* refused.
C17_Witness ==
  /\ pc = "reference parsed"
  /\ def # NoOperator
  /\ hist.form = "reference" /\ hist.first /\ hist.sep = ")"
  /\ hist.op = NameChild /\ hist.side = "main" /\ hist.path = <<Str("~"), KeyB>>
  /\ ~Resolvable(hist, def)
  /\ err # NoErr /\ out = NoPort

(***************************************************************************)
(* CreateAndConnectOperator (slang.go:380-428) and connectDestinations     *)
(* (slang.go:431-477).  An OperatorDef is read here as the services and    *)
(* delegates of the operator, its children and its connections: a map from *)
(* the text of a source reference to the texts of its destinations.        *)
(***************************************************************************)
OperatorDefC(services, delegates, children, connections) ==
  [ServiceDefs |-> services, DelegateDefs |-> delegates, InstanceDefs |-> children,
   Connections |-> connections]

\* core.NewOperator(insName, nil, nil, nil, nil, def) with the children the
\* loop of slang.go:388-402 creates and hands to SetParent.
NewOperator(insName, d) ==
  Operator(insName, d.ServiceDefs, d.DelegateDefs,
           [n \in DOMAIN d.InstanceDefs |->
              Operator(n, d.InstanceDefs[n].ServiceDefs, d.InstanceDefs[n].DelegateDefs, NoMap)])

\* pSrc.Connect(pDst): ports of different types are not connected.
Connect(pSrc, pDst) == IF pSrc.t = pDst.t THEN NoErr ELSE "types do not match"

\* parsedConns[pSrc] = v
Put(conns, pSrc, v) ==
  [k \in DOMAIN conns \cup {pSrc} |-> IF k = pSrc THEN v ELSE conns[k]]

\* The text of a reference, and fmt.Errorf("%s: %s", err.Error(), ref).
RECURSIVE StringOf(_)
StringOf(ref) == IF ref = <<>> THEN "" ELSE Head(ref) \o StringOf(Tail(ref))

Errorf(e, ref) == e \o ": " \o StringOf(ref)

\* The loop over dstConnDefs (slang.go:409-415) from the j-th text on.
\* r holds the table, the keys in the order they were added and the error.
RECURSIVE ParseDestinations(_, _, _, _, _)
ParseDestinations(pSrc, dstConnDefs, j, o, r) ==
  LET With(d) ==
        IF d.err # NoErr THEN [r EXCEPT !.err = Errorf(d.err, dstConnDefs[j])]
        ELSE ParseDestinations(pSrc, dstConnDefs, j + 1, o,
                               [r EXCEPT !.conns = Put(r.conns, pSrc, Append(r.conns[pSrc], d.p))])
  IN IF j > Len(dstConnDefs) THEN r ELSE With(ParsePortReference(dstConnDefs[j], o))

\* The loop over def.Connections (slang.go:405-421), which a Go map hands
\* out in any order: ord is that order, i the place in it.
RECURSIVE ParseConnections(_, _, _, _, _)
ParseConnections(connections, ord, i, o, r) ==
  LET With(s) ==
        IF s.err # NoErr THEN [r EXCEPT !.err = Errorf(s.err, ord[i])]
        ELSE ParseConnections(connections, ord, i + 1, o,
               ParseDestinations(s.p, connections[ord[i]], 1, o,
                 [r EXCEPT !.conns = Put(r.conns, s.p, <<>>),
                           !.keys = IF s.p \in DOMAIN r.conns THEN @ ELSE Append(@, s.p)]))
  IN IF i > Len(ord) \/ r.err # NoErr THEN r
     ELSE With(ParsePortReference(ord[i], o))

RECURSIVE ConnectAll(_, _, _, _)
\* A loop that connects every destination twice.
ConnectAllTwice(pSrc, pDsts, j, r) ==
  IF j > Len(pDsts) THEN r
  ELSE IF Connect(pSrc, pDsts[j]) # NoErr THEN [r EXCEPT !.err = Connect(pSrc, pDsts[j])]
  ELSE ConnectAll(pSrc, pDsts, j + 1,
                  [r EXCEPT !.wires = @ \o <<<<pSrc, pDsts[j]>>, <<pSrc, pDsts[j]>>>>,
                            !.ops = Append(@, pDsts[j].op)])

\* The loop over pDsts (slang.go:439-444) from the j-th destination on.
ConnectAll(pSrc, pDsts, j, r) ==
  IF j > Len(pDsts) THEN r
  ELSE IF Connect(pSrc, pDsts[j]) # NoErr THEN [r EXCEPT !.err = Connect(pSrc, pDsts[j])]
  ELSE ConnectAll(pSrc, pDsts, j + 1,
                  [r EXCEPT !.wires = Append(@, <<pSrc, pDsts[j]>>),
                            !.ops = Append(@, pDsts[j].op)])

RECURSIVE ConnectSources(_, _, _, _)
\* A loop that leaves the destinations of a source in the table.
ConnectSourcesKept(o, keys, i, r) ==
  IF i > Len(keys) THEN r
  ELSE IF keys[i].op # o THEN ConnectSources(o, keys, i + 1, r)
  ELSE IF ConnectAll(keys[i], r.conns[keys[i]], 1, r).err # NoErr
  THEN ConnectAll(keys[i], r.conns[keys[i]], 1, r)
  ELSE ConnectSources(o, keys, i + 1, ConnectAll(keys[i], r.conns[keys[i]], 1, r))

\* The loop over conns (slang.go:434-446) from the i-th key on.
ConnectSources(o, keys, i, r) ==
  LET After(x) ==
        IF x.err # NoErr THEN x
        ELSE ConnectSources(o, keys, i + 1, [x EXCEPT !.conns = Put(@, keys[i], <<>>)])
  IN IF i > Len(keys) THEN r
     ELSE IF keys[i].op # o THEN ConnectSources(o, keys, i + 1, r)
     ELSE After(ConnectAll(keys[i], r.conns[keys[i]], 1, r))

\* slang.go:451-460: no destination left in conns is a port of op that
\* belongs to no delegate.
Connected(op, conns) ==
  ~\E k \in DOMAIN conns : \E j \in 1..Len(conns[k]) :
     conns[k][j].op = op /\ conns[k][j].side # "delegate"

\* A choice of operators that does not wait for their ports.
ContinuedOpsAll(ops, conns, ordered) == ops

\* contdOps (slang.go:448-467)
ContinuedOps(ops, conns, ordered) ==
  IF ordered THEN SelectSeq(ops, LAMBDA op : Connected(op, conns)) ELSE ops

\* connectDestinations(o, conns, ordered) on the connections made so far;
\* keys is the order in which conns hands out its keys.  Returns the table,
\* the connections made and the error.
RECURSIVE connectDestinations(_, _, _, _, _)
RECURSIVE Continue(_, _, _, _, _)
\* The loop over contdOps (slang.go:469-474) from the i-th operator on.
Continue(contdOps, i, ordered, keys, r) ==
  IF i > Len(contdOps) \/ r.err # NoErr THEN r
  ELSE Continue(contdOps, i + 1, ordered, keys,
                connectDestinations(contdOps[i], r.conns, ordered, keys, r.wires))

connectDestinations(o, conns, ordered, keys, made) ==
  LET Then(x) ==
        IF x.err # NoErr THEN [conns |-> x.conns, wires |-> x.wires, err |-> x.err]
        ELSE Continue(ContinuedOps(x.ops, x.conns, ordered), 1, ordered, keys,
                      [conns |-> x.conns, wires |-> x.wires, err |-> NoErr])
  IN Then(ConnectSources(o, keys, 1,
                         [conns |-> conns, wires |-> made, ops |-> <<>>, err |-> NoErr]))

\* The table CreateAndConnectOperator parses before it connects.
ParsedConns(d, insName, ord) ==
  ParseConnections(d.Connections, ord, 1, NewOperator(insName, d),
                   [conns |-> NoMap, keys |-> <<>>, err |-> NoErr])

\* A CreateAndConnectOperator that connects what it has parsed when a
\* reference fails.
CreateAndConnectOperatorEager(insName, d, ordered, ord) ==
  LET Done(p, c) ==
        IF p.err # NoErr THEN [o |-> NoOperator, wires |-> c.wires, err |-> p.err]
        ELSE IF c.err # NoErr THEN [o |-> NoOperator, wires |-> c.wires, err |-> c.err]
        ELSE [o |-> NewOperator(insName, d), wires |-> c.wires, err |-> NoErr]
      Connecting(p) == Done(p, connectDestinations(insName, p.conns, ordered, p.keys, <<>>))
  IN Connecting(ParsedConns(d, insName, ord))

\* CreateAndConnectOperator(insName, def, ordered): the operator, the
\* connections made and the error.
CreateAndConnectOperator(insName, d, ordered, ord) ==
  LET Done(c) ==
        IF c.err # NoErr THEN [o |-> NoOperator, wires |-> c.wires, err |-> c.err]
        ELSE [o |-> NewOperator(insName, d), wires |-> c.wires, err |-> NoErr]
      Connecting(p) ==
        IF p.err # NoErr THEN [o |-> NoOperator, wires |-> <<>>, err |-> p.err]
        ELSE Done(connectDestinations(insName, p.conns, ordered, p.keys, <<>>))
  IN Connecting(ParsedConns(d, insName, ord))

(***************************************************************************)
(* SpecConnect: CreateAndConnectOperator, ordered or not, on an operator   *)
(* with the children a (a main service, a service s, a delegate d) and b   *)
(* (a main service).  Every port is a number but the Out of the delegate,  *)
(* a string, which Connect therefore refuses to connect.  A definition     *)
(* connects up to MaxConnections destinations, each to one source; ( and   *)
(* (m@ both name the operator's main In.  Three more definitions name a    *)
(* child that is not there, one lists a destination twice.                 *)
(***************************************************************************)
MaxConnections == 4

NumberPorts == PortDoc(TLeaf("number"), TLeaf("number"))

ChildA ==
  OperatorDefC((NameMain :> NumberPorts) @@ (NameSrv :> NumberPorts),
               NameDlg :> PortDoc(TLeaf("number"), TLeaf("string")), NoMap, NoMap)

ChildB == OperatorDefC(NameMain :> NumberPorts, NoMap, NoMap, NoMap)

SourceRefs ==
  {<<"(">>, <<"(", "m", "@">>, <<"a", ")">>, <<"b", ")">>, <<"a", ".", "d", ")">>}

DestinationRefs ==
  {<<")">>, <<"(", "a">>, <<"(", "s", "@", "a">>, <<"(", "b">>, <<"(", "a", ".", "d">>}

\* The connections that give each destination of D the source f names.
ConnectionsOf(f) ==
  [s \in {f[d] : d \in DOMAIN f} |-> SetToSeq({d \in DOMAIN f : f[d] = s})]

ConnectionsC ==
  {ConnectionsOf(f) :
     f \in UNION {[D -> SourceRefs] :
                    D \in {D \in SUBSET DestinationRefs : Cardinality(D) <= MaxConnections}}}
  \cup {<<"(">> :> <<<<"(", "x">>>>, <<"x", ")">> :> <<<<")">>>>}
  \cup {<<"(">> :> <<<<"(", "a">>, <<"(", "x">>>>,
        (<<"(">> :> <<<<"(", "a">>, <<"(", "a">>>>) @@ (<<"a", ")">> :> <<<<")">>>>)}

DefsC ==
  {OperatorDefC(NameMain :> NumberPorts, NoMap, (KeyA :> ChildA) @@ (KeyB :> ChildB), c) :
     c \in ConnectionsC}

InitConnect ==
  \E d \in DefsC, ordered \in BOOLEAN :
    /\ def = d
    /\ hist = [ordered |-> ordered, ord |-> <<>>]
    /\ out = NoOperator
    /\ wires = <<>>
    /\ pc = "create"
    /\ err = NoErr
    /\ heap = <<>> /\ td = NIL /\ cpy = NIL /\ gens = Idle /\ data = Idle /\ expr = Idle
    /\ props = Idle /\ propDefs = Idle

\* out, err := CreateAndConnectOperator("", def, ordered)
DoCreateAndConnectOperator ==
  /\ pc = "create"
  /\ \E ord \in Perms(DOMAIN def.Connections) :
       \E r \in {CreateAndConnectOperator(<<>>, def, hist.ordered, ord)} :
         /\ out' = r.o
         /\ err' = r.err
         /\ wires' = r.wires
         /\ hist' = [hist EXCEPT !.ord = ord]
  /\ pc' = "created"
  /\ UNCHANGED <<heap, td, cpy, gens, data, expr, props, propDefs, def>>

NextConnect == DoCreateAndConnectOperator

SpecConnect == InitConnect /\ [][NextConnect]_vars

\* The connections of the definition, as pairs of ports.
Declared ==
  UNION {{<<ParsePortReference(s, NewOperator(<<>>, def)).p,
            ParsePortReference(def.Connections[s][j], NewOperator(<<>>, def)).p>> :
            j \in 1..Len(def.Connections[s])} : s \in DOMAIN def.Connections}

\* The connections of the table parsed, as pairs of ports.
ParsedPairs ==
  LET Pairs(c) == UNION {{<<k, c[k][j]>> : j \in 1..Len(c[k])} : k \in DOMAIN c}
  IN Pairs(ParsedConns(def, <<>>, hist.ord).conns)

\* Connection c is among the first i - 1 made.
MadeBefore(c, i) == \E j \in 1..(i - 1) : wires[j] = c

C20_EveryConnectionMade ==
  (pc = "created" /\ err = NoErr) => \A c \in Declared : \E j \in 1..Len(wires) : wires[j] = c

(***************************************************************************)
(* BuildAndCompileOperator (slang.go:56-109), one action for each step.    *)
(* The operator definition as the next step needs it: the services and     *)
(* delegates read back from the heap, the children by name.                *)
(***************************************************************************)
PortsC(h, m) == [n \in DOMAIN m |-> PortDoc(Shape(h, m[n].In), Shape(h, m[n].Out))]

DefC(h, d, connections) ==
  OperatorDefC(PortsC(h, d.ServiceDefs), PortsC(h, d.DelegateDefs),
               [n \in {d.InstanceDefs[i].Name : i \in 1..Len(d.InstanceDefs)} |->
                  LET c == (CHOOSE i \in 1..Len(d.InstanceDefs) : d.InstanceDefs[i].Name = n)
                  IN OperatorDefC(PortsC(h, d.InstanceDefs[c].OperatorDef.ServiceDefs),
                                  PortsC(h, d.InstanceDefs[c].OperatorDef.DelegateDefs),
                                  NoMap, NoMap)],
               connections)

\* op.Define(): the definition of the operator as built, its connections
\* the ones that have been made.
Define(d, made) ==
  LET Made(s, o) ==
        SelectSeq(d.Connections[s],
                  LAMBDA t : \E j \in 1..Len(made) :
                               made[j] = <<ParsePortReference(s, o).p, ParsePortReference(t, o).p>>)
  IN [d EXCEPT !.Connections =
        [s \in {s \in DOMAIN d.Connections : Made(s, NewOperator(<<>>, d)) # <<>>} |->
           Made(s, NewOperator(<<>>, d))]]

\* The In ports of the services and delegates of the children of o.
InPorts(o) ==
  UNION {{RootPort(o.children[c], "service", n, TRUE) : n \in DOMAIN o.children[c].services}
         \cup {RootPort(o.children[c], "delegate", n, TRUE) : n \in DOMAIN o.children[c].delegates} :
         c \in DOMAIN o.children}

\* flatOp.CorrectlyCompiled(): every In port has a source.
CorrectlyCompiled(o, made) ==
  IF \A p \in InPorts(o) : \E j \in 1..Len(made) : made[j][2] = p THEN NoErr
  ELSE "port not connected"

\* return nil, err, with the operator built so far in the place of nil.
ReturnBuilt(o, e) == [o |-> o, err |-> e]

\* return nil, err (slang.go:66-68, 72-74, 78-80, 84-86, 93-95, 99-101,
\* 105-107) and return flatOp, nil (108)
Return(o, e) == [o |-> IF e # NoErr THEN NoOperator ELSE o, err |-> e]

(***************************************************************************)
(* SpecBuild: BuildAndCompileOperator on a file that is found or not,      *)
(* readable or not, holding a definition with the children a (a main       *)
(* service, a service s whose Out is a string) and b, the name of a        *)
(* well-formed or with a blank, a service named {p} or none, a property p  *)
(* declared or not and given or not, and one of the connection maps of     *)
(* ConnectionsB.                                                           *)
(***************************************************************************)
ChildDocA ==
  OperatorDoc((NameMain :> NumberPorts)
              @@ (NameSrv :> PortDoc(TLeaf("number"), TLeaf("string"))), NoMap, <<>>, NoMap)

ChildDocB == OperatorDoc(NameMain :> NumberPorts, NoMap, <<>>, NoMap)

DocsB ==
  {OperatorDoc(S, NoMap,
               <<InstanceDoc(n, <<"o">>, NoMap, NoMap, ChildDocA),
                 InstanceDoc(KeyB, <<"o">>, NoMap, NoMap, ChildDocB)>>, pds) :
     S \in {NameMain :> NumberPorts, (NameMain :> NumberPorts) @@ (NameExpr :> NumberPorts)},
     n \in {KeyA, <<"a", " ">>}, pds \in {NoMap, NameP :> TLeaf("string")}}

BagsB == {NoMap, NameP :> VString(Str("w"))}

\* Connections that wire every In port; that leave b unwired; that name a
\* child that is not there; that connect a string to a number; that wire
\* every In port through a cycle between a and b.
ConnectionsB ==
  {(<<"(">> :> <<<<"(", "a">>, <<"(", "s", "@", "a">>, <<"(", "b">>>>)
     @@ (<<"a", ")">> :> <<<<")">>>>),
   (<<"(">> :> <<<<"(", "a">>, <<"(", "s", "@", "a">>>>) @@ (<<"a", ")">> :> <<<<")">>>>),
   <<"(">> :> <<<<"(", "x">>>>,
   (<<"(">> :> <<<<"(", "a">>, <<"(", "s", "@", "a">>, <<"(", "b">>>>)
     @@ (<<"s", "@", "a", ")">> :> <<<<")">>>>),
   (<<"(">> :> <<<<"(", "a">>>>) @@ (<<"b", ")">> :> <<<<"(", "s", "@", "a">>>>)
     @@ (<<"a", ")">> :> <<<<"(", "b">>, <<")">>>>)}

BuildSteps ==
  <<"find file", "read", "specify", "create", "compile", "define", "create flat", "check">>

NoLocals == [def |-> Idle, op |-> NoOperator, flatDef |-> Idle, flatOp |-> NoOperator]

InitBuild ==
  \E doc \in DocsB, ps \in BagsB, c \in ConnectionsB :
    /\ hist = [file |-> doc, connections |-> c, steps |-> <<>>]
    /\ props = ps
    /\ gens = NoMap
    /\ heap = <<>>
    /\ def = Idle
    /\ data = NoLocals
    /\ out = NoOperator
    /\ wires = <<>>
    /\ pc = "find file"
    /\ err = NoErr
    /\ td = NIL /\ cpy = NIL /\ expr = Idle /\ propDefs = Idle

\* The step at pc has returned e: the call returns nil and e, or goes on.
\* o is the operator returned by the last step.
Stepped(e, o, next) ==
  /\ hist' = [hist EXCEPT !.steps = Append(@, [step |-> pc, err |-> e])]
  /\ IF e # NoErr \/ next = "returned"
       THEN pc' = "returned" /\ out' = Return(o, e).o /\ err' = Return(o, e).err
       ELSE pc' = next /\ out' = out /\ err' = err

\* opDefFilePath, err := utils.FileWithFileEnding(opFilePath, FILE_ENDINGS)
FindFileStep ==
  /\ pc = "find file"
  /\ \E e \in {NoErr, "no file"} : Stepped(e, NoOperator, "read")
  /\ UNCHANGED <<heap, td, cpy, gens, data, expr, wires, props, propDefs, def>>

\* def, err := e.ReadOperatorDef(opDefFilePath, nil): the file is read and
\* parsed, or not, and the definition validated.
ReadOperatorDefStep ==
  /\ pc = "read"
  /\ \/ /\ Stepped("could not read operator file", NoOperator, "specify")
        /\ UNCHANGED <<heap, def>>
     \/ \E b \in {BuildOperator(<<>>, hist.file)} :
          \E ord \in KeyOrders(b.h), nord \in Perms(NamesIn(b.d)) :
            \E r \in {OperatorDefValidate(b.h, b.d, ord, nord)} :
              /\ heap' = r.h
              /\ def' = r.d
              /\ Stepped(r.err, NoOperator, "specify")
  /\ UNCHANGED <<td, cpy, gens, data, expr, wires, props, propDefs>>

\* err = def.SpecifyOperator(gens, props)
SpecifyOperatorStep ==
  /\ pc = "specify"
  /\ \E ord \in KeyOrders(heap), nord \in Perms(NamesIn(def)),
        gord \in Perms(DOMAIN gens \cup IdentifiersIn(def)) :
       \E r \in {SpecifyOperator(heap, def, gens, props,
                                   [ord |-> ord, nord |-> nord, gord |-> gord])} :
          /\ heap' = r.h
          /\ def' = r.d
          /\ props' = r.p
          /\ IF r.panic THEN pc' = "panic" /\ UNCHANGED <<out, err, hist>>
             ELSE Stepped(r.err, NoOperator, "create")
  /\ UNCHANGED <<td, cpy, gens, data, expr, wires, propDefs>>

\* op, err := CreateAndConnectOperator(insName, def, false): the operator
\* or one of its children cannot be created, or the operator is created and
\* connected.
CreateStep ==
  /\ pc = "create"
  /\ \/ /\ Stepped("cannot create operator", NoOperator, "compile")
        /\ UNCHANGED <<data, wires>>
     \/ \E d \in {DefC(heap, def, hist.connections)} :
          \E ord \in Perms(DOMAIN d.Connections) :
            \E r \in {CreateAndConnectOperator(<<>>, d, FALSE, ord)} :
              /\ data' = [data EXCEPT !.def = d, !.op = r.o]
              /\ wires' = r.wires
              /\ Stepped(r.err, NoOperator, "compile")
  /\ UNCHANGED <<heap, td, cpy, gens, expr, props, propDefs, def>>

\* op.Compile(), which returns no error: the children are elementary and
\* stay as they are.
CompileStep ==
  /\ pc = "compile"
  /\ Stepped(NoErr, NoOperator, "define")
  /\ UNCHANGED <<heap, td, cpy, gens, data, expr, wires, props, propDefs, def>>

\* flatDef, err := op.Define()
DefineStep ==
  /\ pc = "define"
  /\ \/ /\ Stepped("cannot define", NoOperator, "create flat")
        /\ UNCHANGED data
     \/ /\ data' = [data EXCEPT !.flatDef = Define(data.def, wires)]
        /\ Stepped(NoErr, NoOperator, "create flat")
  /\ UNCHANGED <<heap, td, cpy, gens, expr, wires, props, propDefs, def>>

\* flatOp, err := CreateAndConnectOperator(insName, flatDef, true)
CreateFlatStep ==
  /\ pc = "create flat"
  /\ \/ /\ Stepped("cannot create operator", NoOperator, "check")
        /\ UNCHANGED <<data, wires>>
     \/ \E ord \in Perms(DOMAIN data.flatDef.Connections) :
          \E r \in {CreateAndConnectOperator(<<>>, data.flatDef, TRUE, ord)} :
            /\ data' = [data EXCEPT !.flatOp = r.o]
            /\ wires' = r.wires
            /\ Stepped(r.err, NoOperator, "check")
  /\ UNCHANGED <<heap, td, cpy, gens, expr, props, propDefs, def>>

\* err = flatOp.CorrectlyCompiled(), and return flatOp, nil
CheckStep ==
  /\ pc = "check"
  /\ Stepped(CorrectlyCompiled(data.flatOp, wires), data.flatOp, "returned")
  /\ UNCHANGED <<heap, td, cpy, gens, data, expr, wires, props, propDefs, def>>

NextBuild ==
  \/ FindFileStep
  \/ ReadOperatorDefStep
  \/ SpecifyOperatorStep
  \/ CreateStep
  \/ CompileStep
  \/ DefineStep
  \/ CreateFlatStep
  \/ CheckStep

SpecBuild == InitBuild /\ [][NextBuild]_vars

\* The steps taken so far are the first steps of BuildSteps in their order,
\* and none but the last has returned an error.
StepsInOrder ==
  /\ Len(hist.steps) <= Len(BuildSteps)
  /\ \A i \in 1..Len(hist.steps) :
       /\ hist.steps[i].step = BuildSteps[i]
       /\ i < Len(hist.steps) => hist.steps[i].err = NoErr

\* C18: BuildAndCompileOperator returns an operator and a nil error, or nil
\* and an error, never both.  It returns an operator only after finding and
\* reading the file (with the validation), SpecifyOperator, the unordered
\* CreateAndConnectOperator, Compile, Define, the ordered
\* CreateAndConnectOperator and CorrectlyCompiled have been taken in that
\* order and each has succeeded, the operator being the one the ordered
\* CreateAndConnectOperator built, with every In port connected; it returns
\* the error of the first step that fails, and takes no step behind it.
C18_OperatorOrError ==
  /\ StepsInOrder
  /\ pc # "returned" => out = NoOperator /\ err = NoErr
  /\ pc = "returned" =>
       \/ /\ out # NoOperator /\ err = NoErr
          /\ Len(hist.steps) = Len(BuildSteps)
          /\ hist.steps[Len(hist.steps)].err = NoErr
          /\ out = data.flatOp
          /\ CorrectlyCompiled(out, wires) = NoErr
       \/ /\ out = NoOperator /\ err # NoErr
          /\ hist.steps[Len(hist.steps)].err = err

\* The call has returned the operator the ordered CreateAndConnectOperator
\* built from the four connections that wire every In port, and no error.
C18_Witness ==
  /\ pc = "returned"
  /\ out # NoOperator /\ err = NoErr
  /\ Len(hist.steps) = Len(BuildSteps)
  /\ Len(wires) = 4

(***************************************************************************)
(* ReadOperatorDef (slang.go:290-344) and getOperatorDef (348-376).  A     *)
(* definition file is read here as the operators its instances name, in    *)
(* the order of def.InstanceDefs: a file, the name NoFile that no library   *)
(* path holds, or the name Builtin of a registered builtin.  pathsRead is  *)
(* a Go slice: an array and a length, the capacity being the length of     *)
(* the array; arrs holds the arrays allocated so far.                       *)
(***************************************************************************)
NoFile == "x"

Builtin == "b"

NilSlice == [arr |-> NIL, len |-> 0]

\* cap(s)
Cap(arrs, s) == IF s.arr = NIL THEN 0 ELSE Len(arrs[s.arr])

\* A reading of the slice that takes the whole array for it.
ElementsOfArray(arrs, s) ==
  IF s.arr = NIL THEN {} ELSE {arrs[s.arr][i] : i \in 1..Len(arrs[s.arr])}

\* The elements of slice s: for _, p := range pathsRead.
Elements(arrs, s) == {arrs[s.arr][i] : i \in 1..s.len}

\* append(s, x): in place when the capacity allows, else into a new array of
\* twice the capacity (one for the nil slice) that holds a copy of s.
AppendSlice(arrs, s, x) ==
  IF s.len < Cap(arrs, s)
  THEN [arrs |-> [arrs EXCEPT ![s.arr] = [@ EXCEPT ![s.len + 1] = x]],
        s |-> [arr |-> s.arr, len |-> s.len + 1]]
  ELSE [arrs |-> Append(arrs, [i \in 1..(IF s.len = 0 THEN 1 ELSE 2 * s.len) |->
                                 IF i <= s.len THEN arrs[s.arr][i]
                                 ELSE IF i = s.len + 1 THEN x ELSE ""]),
        s |-> [arr |-> Len(arrs) + 1, len |-> s.len + 1]]

RECURSIVE ReadOperatorDef(_, _, _, _)
RECURSIVE ReadChildren(_, _, _, _, _)
\* getOperatorDef(insDef, currDir, pathsRead) for insDef.Operator = operator.
\* st holds the arrays, the files read so far and the error.
getOperatorDef(fs, operator, pathsRead, st) ==
  IF operator = Builtin THEN st
  ELSE IF operator \notin DOMAIN fs THEN [st EXCEPT !.err = "operator not found"]
  ELSE ReadOperatorDef(fs, operator, pathsRead, st)

\* The loop over def.InstanceDefs (slang.go:331-340) from the i-th child on.
ReadChildren(fs, operators, i, pathsRead, st) ==
  LET Next(r) == IF r.err # NoErr THEN r ELSE ReadChildren(fs, operators, i + 1, pathsRead, r)
  IN IF i > Len(operators) THEN st
     ELSE Next(getOperatorDef(fs, operators[i], pathsRead, st))

ReadOperatorDef(fs, opDefFilePath, pathsRead, st) ==
  LET Appended(a) ==
        ReadChildren(fs, fs[opDefFilePath], 1, a.s,
                     [st EXCEPT !.arrs = a.arrs, !.reads = Append(@, opDefFilePath)])
  IN IF opDefFilePath \notin DOMAIN fs THEN [st EXCEPT !.err = "could not read operator file"]
     ELSE IF opDefFilePath \in Elements(st.arrs, pathsRead) THEN [st EXCEPT !.err = "recursion"]
     ELSE Appended(AppendSlice(st.arrs, pathsRead, opDefFilePath))

(***************************************************************************)
(* SpecRead: ReadOperatorDef(f1, nil) on the files f1 to f4, whose          *)
(* instances name up to MaxImports operators in all, each one of the        *)
(* files, NoFile or Builtin.                                                *)
(***************************************************************************)
MaxImports == 4

Files == <<"f1", "f2", "f3", "f4">>

Targets == {Files[i] : i \in 1..Len(Files)} \cup {NoFile, Builtin}

\* How many operators each file names.
Counts ==
  {c \in [1..Len(Files) -> 0..MaxImports] : c[1] + c[2] + c[3] + c[4] <= MaxImports}

InitRead ==
  \E c \in Counts :
    \E i1 \in [1..c[1] -> Targets], i2 \in [1..c[2] -> Targets],
       i3 \in [1..c[3] -> Targets], i4 \in [1..c[4] -> Targets] :
      /\ def = (Files[1] :> i1) @@ (Files[2] :> i2) @@ (Files[3] :> i3) @@ (Files[4] :> i4)
      /\ hist = [reads |-> <<>>]
      /\ out = Idle
      /\ pc = "read file"
      /\ err = NoErr
      /\ wires = Idle
      /\ heap = <<>> /\ td = NIL /\ cpy = NIL /\ gens = Idle /\ data = Idle /\ expr = Idle
      /\ props = Idle /\ propDefs = Idle

\* def, err := e.ReadOperatorDef(f1, nil)
DoReadOperatorDef ==
  /\ pc = "read file"
  /\ \E r \in {ReadOperatorDef(def, Files[1], NilSlice,
                                [arrs |-> <<>>, reads |-> <<>>, err |-> NoErr])} :
       /\ err' = r.err
       /\ hist' = [reads |-> r.reads]
  /\ pc' = "file read"
  /\ UNCHANGED <<heap, td, cpy, gens, data, expr, wires, props, propDefs, out, def>>

NextRead == DoReadOperatorDef

SpecRead == InitRead /\ [][NextRead]_vars

\* The files the instances of file f name.
FileImports(f) == {def[f][i] : i \in 1..Len(def[f])} \cap DOMAIN def

\* The files reached from the files of S along imports, S included.
RECURSIVE ImportClosure(_)
ImportClosure(S) ==
  LET Grown(T) == IF T = S THEN S ELSE ImportClosure(T)
  IN Grown(S \cup UNION {FileImports(f) : f \in S})

\* Some file reached from f1 is reached again from its own imports.
CycleReachable ==
  \E f \in ImportClosure({Files[1]}) : f \in ImportClosure(FileImports(f))

\* Some file reached from f1 names an operator that no file holds.
MissingReachable ==
  \E f \in ImportClosure({Files[1]}) : \E i \in 1..Len(def[f]) : def[f][i] = NoFile

\* C21: ReadOperatorDef ends on every set of files; it returns no error
\* exactly when no file reached from the first lies on a cycle of imports and
\* none names an operator that is not found, every file reached having been
\* read; it returns a recursion error only when a file reached lies on a
\* cycle, and always then unless an operator is not found; a file imported
\* along two chains that is not its own ancestor is no error.
C21_RecursionIffCycle ==
  pc = "file read" =>
    /\ err \in {NoErr, "recursion", "operator not found"}
    /\ err = NoErr <=> (~CycleReachable /\ ~MissingReachable)
    /\ err = "recursion" => CycleReachable
    /\ err = "operator not found" => MissingReachable
    /\ err = NoErr => {hist.reads[i] : i \in 1..Len(hist.reads)} = ImportClosure({Files[1]})

\* f1 names f2 and f3, f2 names f3: f3 has been read twice, and no error
\* returned.
C21_Witness ==
  /\ pc = "file read"
  /\ def[Files[1]] = <<Files[2], Files[3]>> /\ def[Files[2]] = <<Files[3]>>
  /\ err = NoErr
  /\ hist.reads = <<Files[1], Files[2], Files[3], Files[3]>>

\* f1 names f2, which names f1: a recursion error.
C21_Recursion ==
  /\ pc = "file read"
  /\ def[Files[1]] = <<Files[2]>> /\ def[Files[2]] = <<Files[1]>>
  /\ err = "recursion"

\* ==== Builtin workers ====
\* A worker runs the body of one native operator.  Its state: def holds the
\* queues of the ports it pulls from, data its locals, props its operator with
\* the stop flag, out the items pushed so far, in the order pushed, hist the
\* items pulled so far and the number of pulls since CheckStop was last
\* evaluated, pc the position in the body, err the panic that ended it.

\* Go's int, at the width of the model.
IntBits == 3

MinInt == -(2^(IntBits - 1))

MaxInt == 2^(IntBits - 1) - 1

\* Arithmetic of int wraps around.
WrapInt(n) == ((n - MinInt) % (2^IntBits)) + MinInt

\* The values of type "number" (VerifyData takes int and float64).
IntValue(n) == [kind |-> "int", v |-> n]

Float64Value(n) == [kind |-> "float64", v |-> n]

\* Stream markers carry the stream that issued them.
BOS(s) == [kind |-> "BOS", src |-> s]

EOS(s) == [kind |-> "EOS", src |-> s]

\* core.IsMarker(i)
IsMarker(i) == i.kind \in {"BOS", "EOS"}

\* The longest input of a worker.
MaxItems == 2

\* Sequences of at most n items of S.
SeqUpTo(S, n) == UNION {[1..k -> S] : k \in 0..n}

\* The worker of operator op at the start of its body.
InitWorker(op, queues) ==
  /\ def = queues
  /\ data = Idle
  /\ props = [stop |-> FALSE, op |-> op]
  /\ out = <<>>
  /\ hist = [pulled |-> <<>>, pulls |-> 0]
  /\ err = NoErr
  /\ wires = Idle
  /\ heap = <<>> /\ td = NIL /\ cpy = NIL /\ gens = Idle /\ expr = Idle
  /\ propDefs = Idle

\* op.Stop(): sets the stop flag, at any time.
DoStop ==
  /\ ~props.stop
  /\ props' = [props EXCEPT !.stop = TRUE]
  /\ UNCHANGED <<heap, td, cpy, gens, data, expr, wires, propDefs, out, def, err, pc, hist>>

\* for !op.CheckStop() {: leaves the body when the flag is set.
CheckStop(body) ==
  /\ pc' = IF props.stop THEN "returned" ELSE body
  /\ hist' = [hist EXCEPT !.pulls = 0]
  /\ UNCHANGED <<heap, td, cpy, gens, data, expr, wires, props, propDefs, out, def, err>>

\* i := port.Pull(): takes the head of the queue of the port, waits when
\* the queue is empty.
Pull(port, local, next) ==
  /\ def[port] # <<>>
  /\ data' = (local :> Head(def[port])) @@ data
  /\ def' = [def EXCEPT ![port] = Tail(def[port])]
  /\ hist' = [pulled |-> Append(hist.pulled, Head(def[port])), pulls |-> hist.pulls + 1]
  /\ pc' = next
  /\ UNCHANGED <<heap, td, cpy, gens, expr, wires, props, propDefs, out, err>>

\* A panic ends the worker.
Panic(msg) ==
  /\ err' = msg
  /\ pc' = "panic"
  /\ UNCHANGED <<heap, td, cpy, gens, data, expr, wires, props, propDefs, out, def, hist>>

\* ---- rand-range ----

Numbers == {IntValue(n) : n \in {-1, 1, MaxInt}} \cup {Float64Value(1)}

RandRangeItems ==
  {BOS("S"), EOS("S")} \cup {[kind |-> "map", min |-> a, max |-> b] : a, b \in Numbers}

\* What the body does with a pulled item i: the items it may push, or the
\* panic of a failed type assertion or of rand.Intn(n) with n <= 0.
randRange(i) ==
  IF IsMarker(i) THEN {[push |-> i, err |-> NoErr]}
  ELSE IF i.max.kind # "int" \/ i.min.kind # "int"
  THEN {[push |-> NIL, err |-> "interface conversion"]}
  ELSE LET n == WrapInt(i.max.v - i.min.v + 1)
       IN IF n <= 0
          THEN {[push |-> NIL, err |-> "invalid argument to Intn"]}
          ELSE {[push |-> IntValue(WrapInt(i.min.v + r)), err |-> NoErr] : r \in 0..(n - 1)}

InitRandRange ==
  /\ \E q \in SeqUpTo(RandRangeItems, MaxItems) : InitWorker("rand-range", [in |-> q])
  /\ pc = "CheckStop"

RandRangeCheckStop ==
  /\ props.op = "rand-range"
  /\ pc = "CheckStop"
  /\ CheckStop("Pull")

RandRangePull ==
  /\ props.op = "rand-range"
  /\ pc = "Pull"
  /\ Pull("in", "i", "Push")

RandRangePush ==
  /\ props.op = "rand-range"
  /\ pc = "Push"
  /\ \E r \in randRange(data.i) :
       /\ r.err = NoErr
       /\ out' = Append(out, r.push)
       /\ pc' = "CheckStop"
  /\ UNCHANGED <<heap, td, cpy, gens, data, expr, wires, props, propDefs, def, err, hist>>

RandRangePanic ==
  /\ props.op = "rand-range"
  /\ pc = "Push"
  /\ \E r \in randRange(data.i) :
       /\ r.err # NoErr
       /\ Panic(r.err)

NextRandRange ==
  \/ RandRangeCheckStop
  \/ RandRangePull
  \/ RandRangePush
  \/ RandRangePanic
  \/ DoStop

SpecRandRange == InitRandRange /\ [][NextRandRange]_vars

\* The pulled items the body has dealt with.
Handled == IF pc = "Push" THEN Len(hist.pulled) - 1 ELSE Len(hist.pulled)

\* {min, max} with min <= max.
MinMax(i) == i.kind = "map" /\ i.min.v <= i.max.v

\* o is the output the claim gives for input i.
RandRangeOutput(i, o) ==
  /\ IsMarker(i) => o = i
  /\ MinMax(i) => o.kind = "int" /\ i.min.v <= o.v /\ o.v <= i.max.v

\* C22: the rand-range worker emits exactly one output per input, in input
\* order: the same marker for a marker, and for {min, max} with min <= max an
\* integer r with min <= r <= max.
C22_OneOutputPerInput ==
  (\A k \in 1..Len(hist.pulled) : IsMarker(hist.pulled[k]) \/ MinMax(hist.pulled[k])) =>
    /\ Len(out) = Handled
    /\ \A k \in 1..Handled : RandRangeOutput(hist.pulled[k], out[k])

\* C22: {min: -1, max: MaxInt} was pulled and the worker has ended in the panic
\* of rand.Intn, with nothing pushed.
C22_Overflow ==
  /\ pc = "panic"
  /\ hist.pulled = <<[kind |-> "map", min |-> IntValue(-1), max |-> IntValue(MaxInt)]>>
  /\ out = <<>>

\* ---- files.zip.pack ----

\* The values of type "string" (VerifyData takes a string and nil), with
\* their length in bytes, and of type "binary".
StringValue(s, n) == [kind |-> "string", v |-> s, len |-> n]

Null == [kind |-> "nil"]

BinaryValue(b) == [kind |-> "binary", v |-> b]

\* The longest name zip.Writer.Create takes (a uint16 counts its bytes).
MaxNameLen == 65535

Paths == {StringValue("a", 5), StringValue("c", MaxNameLen + 1), Null}

\* The stream of the in port, and a stream around it.
ZIPItems ==
  {BOS("in"), EOS("in"), BOS("S")}
    \cup {[kind |-> "map", path |-> p, file |-> BinaryValue("x")] : p \in Paths}

\* in.OwnBOS(i), in.OwnEOS(i)
OwnBOS(port, i) == i = BOS(port)

OwnEOS(port, i) == i = EOS(port)

\* utils.Binary(buf.Bytes()) after zipWriter.Close(): the archive with the
\* entries written, in the order written.
Archive(entries) == [kind |-> "binary", zip |-> entries]

\* What lines 49-59 do with item i pulled inside a frame: the entry written,
\* or the panic of a failed type assertion or of Write on the nil writer that
\* Create returns with its error.
zipEntry(i) ==
  IF i.kind # "map" THEN [err |-> "interface conversion", entry |-> NIL]
  ELSE IF i.path.kind # "string" \/ i.file.kind # "binary"
  THEN [err |-> "interface conversion", entry |-> NIL]
  ELSE IF i.path.len > MaxNameLen
  THEN [err |-> "nil pointer dereference", entry |-> NIL]
  ELSE [err |-> NoErr, entry |-> [path |-> i.path.v, file |-> i.file.v]]

InitZIPPack ==
  /\ \E q \in SeqUpTo(ZIPItems, MaxItems + 2) : InitWorker("files.zip.pack", [in |-> q])
  /\ pc = "CheckStop"

ZIPPackCheckStop ==
  /\ props.op = "files.zip.pack"
  /\ pc = "CheckStop"
  /\ CheckStop("Pull")

\* i := in.Stream().Pull() and lines 39-45.
ZIPPackPull ==
  /\ props.op = "files.zip.pack"
  /\ pc = "Pull"
  /\ def.in # <<>>
  /\ \E i \in {Head(def.in)} :
       /\ hist' = [pulled |-> Append(hist.pulled, i), pulls |-> hist.pulls + 1]
       /\ IF ~OwnBOS("in", i)
          THEN /\ out' = Append(out, i)
               /\ data' = [i |-> i]
               /\ pc' = "CheckStop"
          ELSE /\ out' = out
               /\ data' = [i |-> i, zipWriter |-> <<>>]
               /\ pc' = "PullItem"
  /\ def' = [def EXCEPT !.in = Tail(def.in)]
  /\ UNCHANGED <<heap, td, cpy, gens, expr, wires, props, propDefs, err>>

\* i = in.Pull() and lines 49-64.
ZIPPackPullItem ==
  /\ props.op = "files.zip.pack"
  /\ pc = "PullItem"
  /\ def.in # <<>>
  /\ \E i \in {Head(def.in)} :
       /\ hist' = [pulled |-> Append(hist.pulled, i), pulls |-> hist.pulls + 1]
       /\ IF OwnEOS("in", i)
          THEN /\ out' = Append(out, Archive(data.zipWriter))
               /\ data' = [i |-> i]
               /\ pc' = "CheckStop"
               /\ err' = err
          ELSE \E e \in {zipEntry(i)} :
                 /\ out' = out
                 /\ err' = e.err
                 /\ IF e.err = NoErr
                    THEN /\ data' = [i |-> i, zipWriter |-> Append(data.zipWriter, e.entry)]
                         /\ pc' = "PullItem"
                    ELSE /\ data' = [data EXCEPT !.i = i]
                         /\ pc' = "panic"
  /\ def' = [def EXCEPT !.in = Tail(def.in)]
  /\ UNCHANGED <<heap, td, cpy, gens, expr, wires, props, propDefs>>

NextZIPPack ==
  \/ ZIPPackCheckStop
  \/ ZIPPackPull
  \/ ZIPPackPullItem
  \/ DoStop

SpecZIPPack == InitZIPPack /\ [][NextZIPPack]_vars

\* The outputs the claim gives for the items p[k..]: an item at the head that
\* is not the own BOS goes out unchanged; a frame closed by the own EOS gives
\* one archive with an entry per item; an open frame gives nothing yet.
RECURSIVE Packed(_, _, _, _, _)
Packed(p, k, inFrame, entries, acc) ==
  IF k > Len(p) THEN acc
  ELSE IF ~inFrame
  THEN IF p[k] = BOS("in")
       THEN Packed(p, k + 1, TRUE, <<>>, acc)
       ELSE Packed(p, k + 1, FALSE, <<>>, Append(acc, p[k]))
  ELSE IF p[k] = EOS("in")
  THEN Packed(p, k + 1, FALSE, <<>>, Append(acc, Archive(entries)))
  ELSE IF p[k].kind = "map"
  THEN Packed(p, k + 1, TRUE,
              Append(entries, [path |-> p[k].path.v, file |-> p[k].file.v]), acc)
  ELSE Packed(p, k + 1, TRUE, entries, acc)

\* Every item of p inside a frame is an item of the stream, not a marker.
RECURSIVE ItemsFramed(_, _, _)
ItemsFramed(p, k, inFrame) ==
  IF k > Len(p) THEN TRUE
  ELSE IF ~inFrame THEN ItemsFramed(p, k + 1, p[k] = BOS("in"))
  ELSE IF p[k] = EOS("in") THEN ItemsFramed(p, k + 1, FALSE)
  ELSE p[k].kind = "map" /\ p[k].path.kind = "string" /\ ItemsFramed(p, k + 1, TRUE)

\* C23: the ZIP pack worker emits one binary per framed input stream, after
\* the own EOS has been pulled, with one entry per item in item order, and
\* forwards an item at the head of the loop that is not the own BOS; a worker
\* that has ended in a panic has left no frame of its input without output.
C23_OneArchivePerFrame ==
  ItemsFramed(hist.pulled \o def.in, 1, FALSE) =>
    /\ out = Packed(hist.pulled, 1, FALSE, <<>>, <<>>)
    /\ pc = "panic" => out = Packed(hist.pulled \o def.in, 1, FALSE, <<>>, <<>>)

\* C23: the frame BOS, {path: 65536 bytes}, EOS was put in, the worker has
\* ended in a panic on the item and the EOS is still in the queue.
C23_NameTooLong ==
  /\ pc = "panic"
  /\ hist.pulled = <<BOS("in"), [kind |-> "map", path |-> StringValue("c", MaxNameLen + 1),
                                 file |-> BinaryValue("x")]>>
  /\ def.in = <<EOS("in")>>
  /\ out = <<>>

\* ---- net.http.client ----

\* A push of item on the port named: "out" is the out port of the service,
\* the other names are the ports below it.
Pushed(port, item) == [port |-> port, item |-> item]

Methods == {StringValue("GET", 3), StringValue("G T", 3), Null}

\* The values of the headers entry: null, or a list of {key, value}.
HeaderLists ==
  {Null} \cup
  {[kind |-> "stream", v |-> l] :
     l \in {<<>>} \cup {<<[key |-> k, value |-> v]>> :
                          k, v \in {StringValue("k", 1), Null}}}

HTTPClientItems ==
  {BOS("S")} \cup
  {[kind |-> "map", method |-> m, url |-> StringValue("u", 1),
    body |-> BinaryValue("x"), headers |-> h] : m \in Methods, h \in HeaderLists}

\* The keys of resp.Header, in an order that range may take.
HeaderOrders == {<<>>, <<"A">>, <<"B">>, <<"A", "B">>, <<"B", "A">>}

\* http.NewRequest(method, url, body) returns an error for a method that is
\* not a token.
NewRequestFails(req) == req.method.v # "GET"

\* Lines 115-121: a header entry whose key fails the assertion to string
\* while its value is not nil.
HeaderPanics(req) ==
  \E j \in 1..Len(req.headers.v) :
    req.headers.v[j].value # Null /\ req.headers.v[j].key.kind # "string"

\* Lines 138-143: the headers of the response as a stream.
RECURSIVE HeaderPushes(_, _)
HeaderPushes(keys, j) ==
  IF j > Len(keys) THEN <<Pushed("headers", EOS("headers"))>>
  ELSE <<Pushed("headers.key", StringValue(keys[j], 1)),
         Pushed("headers.value", StringValue("v", 1))>> \o HeaderPushes(keys, j + 1)

\* Lines 135-143.
ResponsePushes(keys) ==
  <<Pushed("status", Float64Value(200)), Pushed("body", BinaryValue("y")),
    Pushed("headers", BOS("headers"))>> \o HeaderPushes(keys, 1)

\* What the body does with a pulled item i: the pushes it may make with the
\* error met on the way, or its panic.
httpClient(i) ==
  IF IsMarker(i) THEN {[panic |-> NoErr, err |-> NoErr, pushes |-> <<Pushed("out", i)>>]}
  ELSE IF i.method.kind # "string" \/ i.url.kind # "string"
          \/ i.body.kind # "binary" \/ i.headers.kind # "stream"
  THEN {[panic |-> "interface conversion", err |-> NoErr, pushes |-> <<>>]}
  ELSE IF NewRequestFails(i)
  THEN {[panic |-> NoErr, err |-> "NewRequest", pushes |-> <<Pushed("out", Null)>>]}
  ELSE IF HeaderPanics(i)
  THEN {[panic |-> "interface conversion", err |-> NoErr, pushes |-> <<>>]}
  ELSE {[panic |-> NoErr, err |-> e, pushes |-> <<Pushed("out", Null)>>] : e \in {"Do", "ReadAll"}}
       \cup {[panic |-> NoErr, err |-> NoErr, pushes |-> ResponsePushes(keys)] :
               keys \in HeaderOrders}

InitHTTPClient ==
  /\ \E q \in SeqUpTo(HTTPClientItems, MaxItems) : InitWorker("net.http.client", [in |-> q])
  /\ pc = "CheckStop"

HTTPClientCheckStop ==
  /\ props.op = "net.http.client"
  /\ pc = "CheckStop"
  /\ CheckStop("Pull")

HTTPClientPull ==
  /\ props.op = "net.http.client"
  /\ pc = "Pull"
  /\ Pull("in", "i", "Push")

HTTPClientPush ==
  /\ props.op = "net.http.client"
  /\ pc = "Push"
  /\ \E r \in httpClient(data.i) :
       /\ r.panic = NoErr
       /\ out' = out \o r.pushes
       /\ data' = [i |-> data.i, err |-> r.err]
       /\ pc' = "CheckStop"
  /\ UNCHANGED <<heap, td, cpy, gens, expr, wires, props, propDefs, def, err, hist>>

HTTPClientPanic ==
  /\ props.op = "net.http.client"
  /\ pc = "Push"
  /\ \E r \in httpClient(data.i) :
       /\ r.panic # NoErr
       /\ Panic(r.panic)

NextHTTPClient ==
  \/ HTTPClientCheckStop
  \/ HTTPClientPull
  \/ HTTPClientPush
  \/ HTTPClientPanic
  \/ DoStop

SpecHTTPClient == InitHTTPClient /\ [][NextHTTPClient]_vars

\* The place of the EOS that closes the headers stream whose pairs start at
\* log[j], 0 when the pairs or the EOS are not there.
RECURSIVE HeadersEnd(_, _)
HeadersEnd(log, j) ==
  IF j > Len(log) THEN 0
  ELSE IF log[j] = Pushed("headers", EOS("headers")) THEN j
  ELSE IF j + 1 <= Len(log) /\ log[j].port = "headers.key" /\ log[j + 1].port = "headers.value"
  THEN HeadersEnd(log, j + 2)
  ELSE 0

Complete == [kind |-> "response"]

Partial == [kind |-> "partial"]

\* The responses the pushes of log[k..] make up: an item pushed on out, or
\* status, body and a headers stream; anything else is a partial response.
RECURSIVE Responses(_, _, _)
Responses(log, k, acc) ==
  IF k > Len(log) THEN acc
  ELSE IF log[k].port = "out" THEN Responses(log, k + 1, Append(acc, log[k].item))
  ELSE IF /\ k + 2 <= Len(log)
          /\ log[k].port = "status"
          /\ log[k + 1].port = "body"
          /\ log[k + 2] = Pushed("headers", BOS("headers"))
          /\ HeadersEnd(log, k + 3) # 0
  THEN Responses(log, HeadersEnd(log, k + 3) + 1, Append(acc, Complete))
  ELSE Append(acc, Partial)

\* C24: the HTTP client worker emits exactly one response per input, in input
\* order: the same marker for a marker, null when the request, the transport
\* or the reading of the body failed, else one complete response; never a
\* partial response, never an input without a response.
C24_OneResponsePerInput ==
  \E rs \in {Responses(out, 1, <<>>)} :
    /\ Len(rs) = Handled
    /\ \A k \in 1..Handled :
         /\ IsMarker(hist.pulled[k]) => rs[k] = hist.pulled[k]
         /\ ~IsMarker(hist.pulled[k]) => rs[k] \in {Null, Complete}
    /\ (pc = "CheckStop" /\ Handled > 0 /\ ~IsMarker(hist.pulled[Handled])) =>
         (rs[Handled] = Null <=> data.err # NoErr)

\* C24: a request with the header {key: null, value: "k"} was pulled and the
\* worker has ended in a panic with nothing pushed.
C24_NullKey ==
  /\ pc = "panic"
  /\ Len(hist.pulled) = 1
  /\ hist.pulled[1].kind = "map"
  /\ hist.pulled[1].method = StringValue("GET", 3)
  /\ hist.pulled[1].headers = [kind |-> "stream", v |-> <<[key |-> Null, value |-> StringValue("k", 1)]>>]
  /\ out = <<>>

\* ---- net.mqtt.publish ----

MQTTPublishItems ==
  {BOS("S")} \cup
  {[kind |-> "map", topic |-> t, payload |-> BinaryValue("x")] :
     t \in {StringValue("t", 1), Null}}

\* token.MessageID() of the publish tokens.
MessageIDs == {1, 2}

\* What the body does with a pulled item i.
mqttPublish(i) ==
  IF IsMarker(i) THEN {[push |-> i, err |-> NoErr]}
  ELSE IF i.topic.kind # "string" \/ i.payload.kind # "binary"
  THEN {[push |-> NIL, err |-> "interface conversion"]}
  ELSE {[push |-> Float64Value(id), err |-> NoErr] : id \in MessageIDs}

InitMQTTPublish ==
  /\ \E q \in SeqUpTo(MQTTPublishItems, MaxItems) : InitWorker("net.mqtt.publish", [in |-> q])
  /\ pc = "Connect"

\* Lines 45-56: connects to the broker, panics when that fails.
MQTTPublishConnect ==
  /\ props.op = "net.mqtt.publish"
  /\ pc = "Connect"
  /\ \/ /\ pc' = "CheckStop"
        /\ UNCHANGED <<heap, td, cpy, gens, data, expr, wires, props, propDefs, out, def, err, hist>>
     \/ Panic("token.Error()")

MQTTPublishCheckStop ==
  /\ props.op = "net.mqtt.publish"
  /\ pc = "CheckStop"
  /\ CheckStop("Pull")

MQTTPublishPull ==
  /\ props.op = "net.mqtt.publish"
  /\ pc = "Pull"
  /\ Pull("in", "i", "Push")

MQTTPublishPush ==
  /\ props.op = "net.mqtt.publish"
  /\ pc = "Push"
  /\ \E r \in mqttPublish(data.i) :
       /\ r.err = NoErr
       /\ out' = Append(out, r.push)
       /\ pc' = "CheckStop"
  /\ UNCHANGED <<heap, td, cpy, gens, data, expr, wires, props, propDefs, def, err, hist>>

MQTTPublishPanic ==
  /\ props.op = "net.mqtt.publish"
  /\ pc = "Push"
  /\ \E r \in mqttPublish(data.i) :
       /\ r.err # NoErr
       /\ Panic(r.err)

NextMQTTPublish ==
  \/ MQTTPublishConnect
  \/ MQTTPublishCheckStop
  \/ MQTTPublishPull
  \/ MQTTPublishPush
  \/ MQTTPublishPanic
  \/ DoStop

\* ---- aggregate ----

\* The most pulls of a run of the aggregate body.
MaxPulls == 12

\* What the ports of the body may hold: the init port, the items stream, the
\* in port of the iteration delegate.
AggregateItems ==
  [init |-> {StringValue("s", 1), BOS("S")},
   items |-> {BOS("items"), EOS("items"), StringValue("x", 1), BOS("S")},
   iteration |-> {BOS("iteration"), EOS("iteration"), StringValue("t", 1),
                  StringValue("u", 1)}]

InitAggregate ==
  /\ InitWorker("aggregate", Idle)
  /\ pc = "PullInit"

\* port.Pull() of the aggregate body: the item i that the port delivers.
AggregatePull(port, i) ==
  /\ props.op = "aggregate"
  /\ Len(hist.pulled) < MaxPulls
  /\ i \in AggregateItems[port]
  /\ hist' = [pulled |-> Append(hist.pulled, Pushed(port, i)), pulls |-> hist.pulls + 1]
  /\ UNCHANGED <<heap, td, cpy, gens, expr, wires, props, propDefs, def>>

\* Where the body goes on, or the panic it ends with.
AggregateGoto(ok, next, msg) ==
  /\ pc' = IF ok THEN next ELSE "panic"
  /\ err' = IF ok THEN err ELSE msg

\* Lines 156-159: state := in.Map("init").Pull().
AggregatePullInit ==
  /\ pc = "PullInit"
  /\ \E i \in AggregateItems.init :
       /\ AggregatePull("init", i)
       /\ data' = [state |-> i]
       /\ AggregateGoto(TRUE, IF IsMarker(i) THEN "PullMarker" ELSE "PullBOS", NoErr)
       /\ out' = out

\* Lines 160-164: the marker is taken from the items and pushed on.
AggregatePullMarker ==
  /\ pc = "PullMarker"
  /\ \E i \in AggregateItems.items :
       /\ AggregatePull("items", i)
       /\ AggregateGoto(IsMarker(i), "PullInit", "should be marker")
       /\ out' = IF IsMarker(i) THEN Append(out, Pushed("out", data.state)) ELSE out
       /\ data' = data

\* Lines 167-172: the BOS of the items opens the stream of the delegate.
AggregatePullBOS ==
  /\ pc = "PullBOS"
  /\ \E i \in AggregateItems.items :
       /\ AggregatePull("items", i)
       /\ AggregateGoto(OwnBOS("items", i), "PullDelegateBOS", "expected BOS")
       /\ out' = IF OwnBOS("items", i)
                 THEN Append(out, Pushed("iteration", BOS("iteration")))
                 ELSE out
       /\ data' = data

\* Lines 174-176.
AggregatePullDelegateBOS ==
  /\ pc = "PullDelegateBOS"
  /\ \E i \in AggregateItems.iteration :
       /\ AggregatePull("iteration", i)
       /\ AggregateGoto(OwnBOS("iteration", i), "PullItem", "expected own BOS")
       /\ out' = out
       /\ data' = data

\* A body that leaves the stream of the delegate open at the end of the items.
AggregateItemPushesOpen(i, state) ==
  IF IsMarker(i) THEN <<>>
  ELSE <<Pushed("iteration.item", i), Pushed("iteration.state", state)>>

\* What lines 181-196 push for item i.
AggregateItemPushes(i, state) ==
  IF OwnEOS("items", i) THEN <<Pushed("iteration", EOS("iteration"))>>
  ELSE IF IsMarker(i) THEN <<>>
  ELSE <<Pushed("iteration.item", i), Pushed("iteration.state", state)>>

\* Where the body goes after item i.
AggregateItemNext(i) == IF OwnEOS("items", i) THEN "PullDelegateEOS" ELSE "PullState"

\* Lines 179-196: item := in.Map("items").Stream().Pull().
AggregatePullItem ==
  /\ pc = "PullItem"
  /\ \E i \in AggregateItems.items :
       /\ AggregatePull("items", i)
       /\ AggregateGoto(~IsMarker(i) \/ OwnEOS("items", i), AggregateItemNext(i),
                        "unexpected unknown marker")
       /\ out' = out \o AggregateItemPushes(i, data.state)
       /\ data' = data

\* Lines 184-189: the EOS of the delegate, then the state goes out.
AggregatePullDelegateEOS ==
  /\ pc = "PullDelegateEOS"
  /\ \E i \in AggregateItems.iteration :
       /\ AggregatePull("iteration", i)
       /\ AggregateGoto(OwnEOS("iteration", i), "PullInit", "expected own BOS")
       /\ out' = IF OwnEOS("iteration", i) THEN Append(out, Pushed("out", data.state)) ELSE out
       /\ data' = data

\* A body that goes on with the state it had.
AggregatePullStateKept ==
  /\ pc = "PullState"
  /\ \E i \in AggregateItems.iteration :
       /\ AggregatePull("iteration", i)
       /\ AggregateGoto(TRUE, "PullItem", NoErr)
       /\ out' = out
       /\ data' = data

\* Line 198: state = iIn.Stream().Pull().
AggregatePullState ==
  /\ pc = "PullState"
  /\ \E i \in AggregateItems.iteration :
       /\ AggregatePull("iteration", i)
       /\ AggregateGoto(TRUE, "PullItem", NoErr)
       /\ out' = out
       /\ data' = [state |-> i]

NextAggregate ==
  \/ AggregatePullInit
  \/ AggregatePullMarker
  \/ AggregatePullBOS
  \/ AggregatePullDelegateBOS
  \/ AggregatePullItem
  \/ AggregatePullDelegateEOS
  \/ AggregatePullState
  \/ DoStop

\* ---- One of the builtin workers runs ----

InitWorkers ==
  \/ InitRandRange
  \/ InitZIPPack
  \/ InitHTTPClient
  \/ InitMQTTPublish
  \/ InitAggregate

NextWorkers ==
  \/ NextRandRange
  \/ NextZIPPack
  \/ NextHTTPClient
  \/ NextMQTTPublish
  \/ NextAggregate

SpecWorkers == InitWorkers /\ [][NextWorkers]_vars

\* The stream ports the bodies write, by operator.
StreamPorts == [x \in {"net.http.client", "aggregate"} |->
                  IF x = "aggregate" THEN "iteration" ELSE "headers"]

\* The number of pushes of marker m of stream s among the first n pushes of out.
Count(m, s, n) ==
  Cardinality({k \in 1..n : out[k] = Pushed(s, [kind |-> m, src |-> s])})

\* The pushes of out from the n-th on keep the frames of stream s, open
\* telling whether a BOS of s stands unclosed before them: a BOS comes when no
\* frame is open, an EOS and an element when one is.
RECURSIVE Framed(_, _, _)
Framed(s, n, open) ==
  IF n > Len(out) THEN TRUE
  ELSE IF out[n] = Pushed(s, BOS(s)) THEN ~open /\ Framed(s, n + 1, TRUE)
  ELSE IF out[n] = Pushed(s, EOS(s)) THEN open /\ Framed(s, n + 1, FALSE)
  ELSE IF out[n].port \in {s \o ".item", s \o ".state", s \o ".key", s \o ".value"}
  THEN open /\ Framed(s, n + 1, open)
  ELSE Framed(s, n + 1, open)

\* C25: on the headers output of the HTTP client and on the iteration
\* delegate output of aggregate, after every push the own BOS and EOS pushed
\* so far alternate starting with BOS (#EOS <= #BOS <= #EOS + 1), and every
\* element of the stream was pushed after a BOS that no EOS has closed yet.
C25_FramesAlternate ==
  props.op \in DOMAIN StreamPorts => Framed(StreamPorts[props.op], 1, FALSE)

\* C25: aggregate has closed one stream of its delegate, has opened the next
\* and has pushed an element.
C25_Witness ==
  /\ props.op = "aggregate"
  /\ Count("BOS", "iteration", Len(out)) = 2
  /\ Count("EOS", "iteration", Len(out)) = 1
  /\ \E n \in 1..Len(out) : out[n].port = "iteration.item"

\* C25: the HTTP client has pushed two responses with their headers streams.
C25_WitnessHeaders ==
  /\ props.op = "net.http.client"
  /\ Count("EOS", "headers", Len(out)) = 2
  /\ \E n \in 1..Len(out) : out[n].port = "headers.key"

\* C26: every builtin worker body evaluates CheckStop() between any two
\* consecutive pulls from its input ports: no body has pulled twice since
\* CheckStop() was last evaluated.
C26_CheckStopBetweenPulls == hist.pulls <= 1

\* C26: the ZIP pack body has pulled the BOS and two items of a frame after
\* its one evaluation of CheckStop(), with the stop flag set since.
C26_FramePulled ==
  /\ props.op = "files.zip.pack"
  /\ props.stop
  /\ hist.pulls = 3
  /\ pc = "PullItem"

\* ==== RunnerService ====
\* The two RunnerService handlers of the daemon: the one that takes the id
\* of the operator and probes for a free port ("Service"), and the one that
\* takes its name and counts ports up ("DaemonService").  Every request is
\* served in a goroutine of its own.  props holds the runner with its
\* globals port and rnd, def the map runningInstances, heap the operators
\* built, data the requests with their locals and their position in the
\* handler, out the status of the responses written, hist what held when a
\* response was written.

Runners == {"Service", "DaemonService"}

\* The most requests of a run, after request 0: the POST that was answered
\* before the run, when there was one.
MaxRequests == 2

Requests == 0..MaxRequests

\* The most requests served at the same time.
MaxConcurrent == 2

NoHandle == -1

\* The handle texts of DELETE bodies with the value strconv.ParseInt(s, 16,
\* 64) gives for them; for any other text it gives 0 and an error.
HexValue == [s \in {"1", "2"} |-> IF s = "2" THEN 2 ELSE 1]

HandleTexts == DOMAIN HexValue \cup {"zz"}

\* handle, _ := strconv.ParseInt(si.Handle, 16, 64)
ParseInt(s) == IF s \in DOMAIN HexValue THEN HexValue[s] ELSE 0

\* r.Method
Methods2 == {"POST", "DELETE"}

NoRequest ==
  [method |-> "", pc |-> "idle", text |-> "", handle |-> NoHandle, port |-> 0, op |-> NIL,
   found |-> FALSE, failed |-> "", inserted |-> FALSE, started |-> FALSE,
   stopped |-> FALSE, deleted |-> FALSE]

\* Request 0 when it was a POST answered with success.
EarlierPost ==
  [NoRequest EXCEPT !.method = "POST", !.pc = "done", !.handle = 1, !.op = 1,
                    !.inserted = TRUE, !.started = TRUE]

\* The port of the first instance of a runner.
FirstPort(runner) == IF runner = "Service" THEN 50001 ELSE 12345

\* The runner as it starts, or after one POST was answered with success, the
\* server of its operator listening or not yet.
InitRunner ==
  /\ \E runner \in Runners :
       \/ /\ props = [runner |-> runner, port |-> 12345, rnd |-> 0]
          /\ def = <<>>
          /\ heap = <<>>
          /\ data = [r \in Requests |-> NoRequest]
          /\ out = [r \in Requests |-> ""]
          /\ hist = [r \in Requests |-> Idle]
       \/ \E listening \in BOOLEAN :
            /\ props = [runner |-> runner,
                        port |-> IF runner = "Service" THEN 12345 ELSE 12346, rnd |-> 1]
            /\ def = (1 :> [port |-> FirstPort(runner), op |-> 1])
            /\ heap = <<[port |-> FirstPort(runner), started |-> TRUE,
                         listening |-> listening, stop |-> ""]>>
            /\ data = [r \in Requests |-> IF r = 0 THEN EarlierPost ELSE NoRequest]
            /\ out = [r \in Requests |-> IF r = 0 THEN "success" ELSE ""]
            /\ hist = [r \in Requests |->
                         IF r = 0 THEN [handles |-> {1}, stopped |-> FALSE] ELSE Idle]
  /\ pc = "serving"
  /\ err = NoErr
  /\ wires = Idle
  /\ td = NIL /\ cpy = NIL /\ gens = Idle /\ expr = Idle /\ propDefs = Idle

\* Request r goes on to pc next with the locals of loc.
Goes(r, next, loc) == data' = [data EXCEPT ![r] = [loc EXCEPT !.pc = next]]

\* The handler has returned: its locals port and si, ri are gone.
Returned(loc) == [loc EXCEPT !.text = "", !.port = 0]

\* writeJSON(w, &data) of request r with the status given: what holds of the
\* table and of the operator of the request at that moment is kept.
Written(r, status) ==
  /\ out' = [out EXCEPT ![r] = status]
  /\ hist' = [hist EXCEPT ![r] =
                [handles |-> DOMAIN def,
                 stopped |-> IF data[r].op = NIL THEN FALSE
                             ELSE heap[data[r].op].stop = "stopped"]]

\* An early return with status "error" at step.
Fails(r, step) ==
  /\ Goes(r, "done", Returned([data[r] EXCEPT !.failed = step]))
  /\ Written(r, "error")
  /\ UNCHANGED <<heap, def, props>>

\* The step of r goes on with nothing else changed.
GoesOn(r, next, loc) ==
  /\ Goes(r, next, loc)
  /\ UNCHANGED <<heap, def, props, out, hist>>

\* A request comes in; the handler looks at r.Method and decodes the body:
\* err := decoder.Decode(&ri), decoder.Decode(&si).
Decode(r) ==
  /\ pc = "serving"
  /\ r > 0
  /\ data[r].pc = "idle"
  /\ \A q \in 1..(r - 1) : data[q].pc # "idle"
  /\ Cardinality({q \in Requests : data[q].pc \notin {"idle", "done"}}) < MaxConcurrent
  /\ \E m \in Methods2, t \in HandleTexts :
       /\ m = "POST" => t = "zz"
       /\ \E loc \in {[NoRequest EXCEPT !.method = m, !.text = t]} :
            \/ /\ Goes(r, "done", Returned([loc EXCEPT !.failed = "Decode"]))
               /\ Written(r, "error")
               /\ UNCHANGED <<heap, def, props>>
            \/ GoesOn(r, IF m = "DELETE" THEN "Lookup"
                         ELSE IF props.runner = "Service" THEN "Listen" ELSE "Build",
                      loc)
  /\ UNCHANGED <<td, cpy, gens, expr, wires, propDefs, err, pc>>

\* The ports some started operator listens on.
Bound == {heap[o].port : o \in {x \in 1..Len(heap) : heap[x].listening}}

\* Lines 52-63: the first port above 50000 that net.Listen can take.
FreePort == CHOOSE p \in 50001..(50002 + MaxRequests) :
              p \notin Bound /\ \A q \in 50001..(p - 1) : q \in Bound

Listen(r) ==
  /\ pc = "serving"
  /\ data[r].pc = "Listen"
  /\ GoesOn(r, "Build", [data[r] EXCEPT !.port = FreePort])
  /\ UNCHANGED <<td, cpy, gens, expr, wires, propDefs, err, pc>>

\* The steps of lines 65-91 (202-224) that may return an error: uuid.Parse,
\* the construction of the endpoint, the build.
BuildSteps2 ==
  IF props.runner = "Service" THEN {"Parse", "Construct", "Build"} ELSE {"Construct", "Build"}

\* A handler that returns the error of the build with the port kept in
\* the table.
BuildFailedKept(r) ==
  /\ Goes(r, "done", Returned([data[r] EXCEPT !.failed = "Build"]))
  /\ Written(r, "error")
  /\ def' = (NoHandle :> [port |-> data[r].port, op |-> NIL]) @@ def
  /\ UNCHANGED <<heap, props>>

\* Lines 67-71, 80-84, 87-91 (204-208, 220-224): the error is returned.
BuildFailed(r) == \E step \in BuildSteps2 : Fails(r, step)

\* The port the endpoint is made for: the local port of Service, the global
\* port of DaemonService (line 203).
EndpointPort(r) == IF props.runner = "Service" THEN data[r].port ELSE props.port

\* opId, err := uuid.Parse(ri.Id); httpDef, err = constructHttpEndpoint(st,
\* port, ...); op, err := api.BuildAndCompile(*httpDef, nil, nil)
BuildAndCompile(r) ==
  /\ pc = "serving"
  /\ data[r].pc = "Build"
  /\ \/ BuildFailed(r)
     \/ /\ heap' = Append(heap, [port |-> EndpointPort(r), started |-> FALSE,
                                 listening |-> FALSE, stop |-> ""])
        /\ Goes(r, "Insert", [data[r] EXCEPT !.op = Len(heap) + 1, !.port = EndpointPort(r)])
        /\ UNCHANGED <<def, props, out, hist>>
  /\ UNCHANGED <<td, cpy, gens, expr, wires, propDefs, err, pc>>

\* The port kept with the handle: the local of Service, the global of
\* DaemonService as it is now.
EntryPort(r) == IF props.runner = "Service" THEN data[r].port ELSE props.port

\* handle := rnd.Int63(); runningInstances[handle] = {port, op}.  rnd gives
\* the next value of its sequence; a call that runs while another request
\* is at its own call may leave the state of rnd as it found it.
Insert(r) ==
  /\ pc = "serving"
  /\ data[r].pc = "Insert"
  /\ props.rnd <= MaxRequests
  /\ \E next \in {props.rnd + 1} \cup
                 {props.rnd : q \in {x \in Requests \ {r} : data[x].pc = "Insert"}} :
       /\ props' = [props EXCEPT !.rnd = next]
       /\ def' = ((props.rnd + 1) :> [port |-> EntryPort(r), op |-> data[r].op]) @@ def
       /\ Goes(r, "Start", [data[r] EXCEPT !.handle = props.rnd + 1, !.inserted = TRUE])
  /\ UNCHANGED <<heap, out, hist>>
  /\ UNCHANGED <<td, cpy, gens, expr, wires, propDefs, err, pc>>

\* op.Start(); op.Main().In().Push(nil); for DaemonService port++ follows.
Start(r) ==
  /\ pc = "serving"
  /\ data[r].pc = "Start"
  /\ heap' = [heap EXCEPT ![data[r].op].started = TRUE]
  /\ props' = IF props.runner = "Service" THEN props
              ELSE [props EXCEPT !.port = props.port + 1]
  /\ Goes(r, "Write", [data[r] EXCEPT !.started = TRUE])
  /\ UNCHANGED <<def, out, hist>>
  /\ UNCHANGED <<td, cpy, gens, expr, wires, propDefs, err, pc>>

\* A handler that answers an unknown handle with success.
LookupPassed(r) ==
  /\ Goes(r, "done", Returned(data[r]))
  /\ Written(r, "success")
  /\ UNCHANGED <<heap, def, props>>

\* Lines 138-140, 264-266: "Unknown handle".
LookupFailed(r) == Fails(r, "Lookup")

\* if ii, ok := runningInstances[handle]; !ok { ... }
Lookup(r) ==
  /\ pc = "serving"
  /\ data[r].pc = "Lookup"
  /\ \E handle \in {ParseInt(data[r].text)} :
       IF handle \notin DOMAIN def
       THEN LookupFailed(r)
       ELSE GoesOn(r, "Stop", [data[r] EXCEPT !.handle = handle, !.found = TRUE,
                                              !.op = def[handle].op])
  /\ UNCHANGED <<td, cpy, gens, expr, wires, propDefs, err, pc>>

\* op.Stop(): the operator is stopped and its server gives up its port.
Stopped(o) == [heap EXCEPT ![o].stop = "stopped", ![o].listening = FALSE]

\* go ii.op.Stop() of Service, ii.op.Stop() of DaemonService.
StopOp(r) ==
  IF props.runner = "DaemonService" THEN Stopped(data[r].op)
  ELSE IF heap[data[r].op].stop = "" THEN [heap EXCEPT ![data[r].op].stop = "go"]
  ELSE heap

Stop(r) ==
  /\ pc = "serving"
  /\ data[r].pc = "Stop"
  /\ heap' = StopOp(r)
  /\ Goes(r, "Delete", [data[r] EXCEPT !.stopped = TRUE])
  /\ UNCHANGED <<def, props, out, hist>>
  /\ UNCHANGED <<td, cpy, gens, expr, wires, propDefs, err, pc>>

\* delete(runningInstances, handle)
Delete(r) ==
  /\ pc = "serving"
  /\ data[r].pc = "Delete"
  /\ def' = [h \in DOMAIN def \ {data[r].handle} |-> def[h]]
  /\ Goes(r, "Write", [data[r] EXCEPT !.deleted = TRUE])
  /\ UNCHANGED <<heap, props, out, hist>>
  /\ UNCHANGED <<td, cpy, gens, expr, wires, propDefs, err, pc>>

\* data.Status = "success"; writeJSON(w, &data)
Write(r) ==
  /\ pc = "serving"
  /\ data[r].pc = "Write"
  /\ Goes(r, "done", Returned(data[r]))
  /\ Written(r, "success")
  /\ UNCHANGED <<heap, def, props>>
  /\ UNCHANGED <<td, cpy, gens, expr, wires, propDefs, err, pc>>

\* The goroutine of go ii.op.Stop() runs.
RunStop(o) ==
  /\ pc = "serving"
  /\ heap[o].stop = "go"
  /\ heap' = Stopped(o)
  /\ UNCHANGED <<td, cpy, gens, data, expr, wires, props, propDefs, out, def, err, pc, hist>>

\* The server of a started operator takes its port, when no other server
\* has it.
ServerListens(o) ==
  /\ pc = "serving"
  /\ heap[o].started /\ ~heap[o].listening /\ heap[o].stop # "stopped"
  /\ heap[o].port \notin Bound
  /\ heap' = [heap EXCEPT ![o].listening = TRUE]
  /\ UNCHANGED <<td, cpy, gens, data, expr, wires, props, propDefs, out, def, err, pc, hist>>

\* Two goroutines at the map, one of them writing: the runtime may end the
\* process (fatal error: concurrent map writes).
Fatal ==
  /\ pc = "serving"
  /\ \E r, q \in Requests :
       /\ r # q
       /\ data[r].pc \in {"Insert", "Delete"}
       /\ data[q].pc \in {"Insert", "Delete", "Lookup"}
  /\ pc' = "fatal"
  /\ err' = "concurrent map writes"
  /\ UNCHANGED <<heap, td, cpy, gens, data, expr, wires, props, propDefs, out, def, hist>>

NextRunner ==
  \/ \E r \in Requests :
       \/ Decode(r)
       \/ Listen(r)
       \/ BuildAndCompile(r)
       \/ Insert(r)
       \/ Start(r)
       \/ Lookup(r)
       \/ Stop(r)
       \/ Delete(r)
       \/ Write(r)
  \/ \E o \in 1..Len(heap) :
       \/ RunStop(o)
       \/ ServerListens(o)
  \/ Fatal

SpecRunner == InitRunner /\ [][NextRunner]_vars

\* The DELETE requests, the POST requests.
Deletes == {r \in Requests : data[r].method = "DELETE"}

Posts == {r \in Requests : data[r].method = "POST"}

\* C27: when the success response of a DELETE is written, the operator of
\* the handle has been stopped and the handle is no longer in the table.
C27_StoppedAndRemoved ==
  \A r \in Deletes :
    out[r] = "success" => hist[r].stopped /\ data[r].handle \notin hist[r].handles

\* C27: Service has written the success response of a DELETE and the
\* operator of the handle has not been stopped yet.
C27_NotStopped ==
  /\ props.runner = "Service"
  /\ \E r \in Deletes :
       /\ out[r] = "success"
       /\ ~hist[r].stopped
       /\ heap[data[r].op].stop = "go"
       /\ heap[data[r].op].listening

\* The POST requests that have put handle h into the table.
Inserts(h) == {p \in Posts : data[p].inserted /\ data[p].handle = h}

\* C28: a DELETE whose handle is not in the table when the handler looks it
\* up returns status "error", stops no operator and leaves the table as it
\* is; so does a DELETE of a handle that a DELETE answered with success has
\* removed.
C28_UnknownHandleFails ==
  /\ [](\A r \in Deletes : (data[r].stopped \/ data[r].deleted) => data[r].found)
  /\ [][\A r \in Deletes :
          (data[r].pc = "Lookup" /\ data'[r].pc # "Lookup") =>
            /\ ParseInt(data[r].text) \notin DOMAIN def =>
                 /\ data'[r].pc = "done"
                 /\ out'[r] = "error"
                 /\ ~data'[r].stopped /\ ~data'[r].deleted
                 /\ def' = def
                 /\ heap' = heap
            /\ (\E q \in Deletes :
                  /\ out[q] = "success"
                  /\ data[q].handle = ParseInt(data[r].text)
                  /\ Cardinality(Inserts(data[q].handle)) = 1) =>
                 out'[r] = "error"]_vars

\* C28: a DELETE of handle 1 was answered with success, a second DELETE of
\* handle 1 with "error", and the operator of another handle runs on.
C28_Witness ==
  /\ \E q, r \in Deletes :
       /\ q < r
       /\ out[q] = "success" /\ data[q].handle = 1
       /\ out[r] = "error" /\ data[r].failed = "Lookup"
  /\ \E p \in Posts : data[p].handle = 1 /\ out[p] = "success"

\* C29: a POST that fails at a step returns status "error", has added no
\* entry to the table and has started no operator; every entry of the table
\* and every started operator comes from a POST that has not failed.
C29_FailedPostAddsNothing ==
  /\ \A r \in Posts :
       /\ data[r].failed # "" =>
            data[r].pc = "done" /\ out[r] = "error"
       /\ out[r] = "error" => ~data[r].inserted /\ ~data[r].started
       /\ out[r] = "success" => data[r].inserted /\ data[r].started
  /\ \A h \in DOMAIN def :
       \E p \in Posts : data[p].inserted /\ data[p].handle = h /\ data[p].failed = ""
  /\ \A o \in 1..Len(heap) :
       heap[o].started => \E p \in Posts : data[p].started /\ data[p].op = o /\ data[p].failed = ""

\* C29: a POST has failed at the build and another at the decoding, both
\* with status "error", next to a POST that has put its operator into the
\* table.
C29_Witness ==
  /\ \E r \in Posts : data[r].failed = "Build" /\ out[r] = "error"
  /\ \E r \in Posts : data[r].failed = "Decode" /\ out[r] = "error"
  /\ Cardinality(DOMAIN def) = 1
  /\ Len(heap) = 1 /\ heap[1].started

\* C30: every entry of the table has a port above 50000 and no two entries
\* have the same port.
C30_PortsFree ==
  /\ \A h \in DOMAIN def : def[h].port > 50000
  /\ \A h, k \in DOMAIN def : h # k => def[h].port # def[k].port

\* C30: Service holds two instances with the same port.
C30_SamePort ==
  /\ props.runner = "Service"
  /\ \E h, k \in DOMAIN def : h # k /\ def[h].port = def[k].port /\ def[h].op # def[k].op

\* The requests whose next statement reads or writes runningInstances.
AtTable == {r \in Requests : data[r].pc \in {"Insert", "Lookup", "Delete"}}

\* C31: no two handlers stand at a statement that reads or writes the table
\* of running instances at the same time, and the runtime has not ended the
\* process for concurrent map writes.
C31_MutualExclusion ==
  /\ pc # "fatal"
  /\ Cardinality(AtTable) <= 1

\* C38: the entry a POST has put into the table stays under its handle, with
\* the operator of that POST, until a DELETE of that handle has removed it.
C38_HandleKept ==
  \A p \in Posts :
    (/\ data[p].inserted
     /\ \A d \in Deletes : ~(data[d].deleted /\ data[d].handle = data[p].handle)) =>
      /\ data[p].handle \in DOMAIN def
      /\ def[data[p].handle].op = data[p].op

\* ==== meta-store ====
\* The meta-store operator as the tests of meta_store_test.go drive it: items
\* are pushed to its main input, the store takes them in one by one, and a
\* push of nil to the query service is answered with what the store holds.
\* props is the generic examineType, data the store, out the answers, hist
\* the items pushed, the number of them the store has taken in, and for every
\* answer the number taken in when it was given.

\* core.PHMultiple
PHMultiple == [kind |-> "PHMultiple"]

\* The most items pushed and the most queries of a run.
MaxPushes == 4

MaxQueries == 3

\* examineType of Test_MetaStore__Single and of Test_MetaStore__Stream.
ExamineTypes == {"string", "stream"}

MetaStoreItems ==
  [string |-> {StringValue("test1", 5), StringValue("test2", 5)},
   stream |-> {BOS("in"), EOS("in"), Float64Value(1), Float64Value(2)}]

InitMetaStore ==
  /\ \E t \in ExamineTypes : props = [op |-> "meta-store", examineType |-> t]
  /\ data = <<>>
  /\ out = <<>>
  /\ hist = [pushed |-> <<>>, received |-> 0, at |-> <<>>]
  /\ pc = "started"
  /\ def = Idle
  /\ err = NoErr
  /\ wires = Idle
  /\ heap = <<>> /\ td = NIL /\ cpy = NIL /\ gens = Idle /\ expr = Idle
  /\ propDefs = Idle

\* A stream of the items is open: a BOS without its EOS.
Open(items) ==
  Cardinality({k \in 1..Len(items) : items[k].kind = "BOS"})
    > Cardinality({k \in 1..Len(items) : items[k].kind = "EOS"})

\* o.Main().In().Push(v), PushBOS(), Stream().Push(v), PushEOS(): a BOS when
\* no stream is open, an element or the EOS when one is.
MetaStorePush ==
  /\ Len(hist.pushed) < MaxPushes
  /\ \E i \in MetaStoreItems[props.examineType] :
       /\ props.examineType = "stream" =>
            (i.kind = "BOS") = ~Open(hist.pushed)
       /\ hist' = [hist EXCEPT !.pushed = Append(@, i)]
  /\ UNCHANGED <<heap, td, cpy, gens, data, expr, wires, props, propDefs, out, def, err, pc>>

\* A store that leaves the placeholder where it is when the stream ends.
storeItemKeepPlaceholder(store, i) ==
  IF i.kind = "BOS" THEN Append(store, <<PHMultiple>>)
  ELSE IF i.kind = "EOS" THEN store
  ELSE IF props.examineType = "stream"
  THEN [store EXCEPT ![Len(store)] = SubSeq(@, 1, Len(@) - 1) \o <<i, PHMultiple>>]
  ELSE Append(store, i)

\* What the store holds after it has taken in item i: a scalar is added at
\* the end; a BOS adds a list that holds the placeholder, an element goes
\* before the placeholder of the last list, the EOS takes the placeholder out.
storeItem(store, i) ==
  IF i.kind = "BOS" THEN Append(store, <<PHMultiple>>)
  ELSE IF i.kind = "EOS"
  THEN [store EXCEPT ![Len(store)] = SubSeq(@, 1, Len(@) - 1)]
  ELSE IF props.examineType = "stream"
  THEN [store EXCEPT ![Len(store)] = SubSeq(@, 1, Len(@) - 1) \o <<i, PHMultiple>>]
  ELSE Append(store, i)

\* The store takes the next item from its main input.
MetaStoreReceive ==
  /\ hist.received < Len(hist.pushed)
  /\ data' = storeItem(data, hist.pushed[hist.received + 1])
  /\ hist' = [hist EXCEPT !.received = @ + 1]
  /\ UNCHANGED <<heap, td, cpy, gens, expr, wires, props, propDefs, out, def, err, pc>>

\* A query answered with every item pushed, taken in or not.
MetaStoreQueryPushed ==
  /\ Len(out) < MaxQueries
  /\ out' = Append(out, hist.pushed)
  /\ hist' = [hist EXCEPT !.at = Append(@, hist.received)]
  /\ UNCHANGED <<heap, td, cpy, gens, data, expr, wires, props, propDefs, def, err, pc>>

\* querySrv.In().Push(nil); querySrv.Out().Pull()
MetaStoreQuery ==
  /\ Len(out) < MaxQueries
  /\ out' = Append(out, data)
  /\ hist' = [hist EXCEPT !.at = Append(@, hist.received)]
  /\ UNCHANGED <<heap, td, cpy, gens, data, expr, wires, props, propDefs, def, err, pc>>

NextMetaStore ==
  \/ MetaStorePush
  \/ MetaStoreReceive
  \/ MetaStoreQuery

SpecMetaStore == InitMetaStore /\ [][NextMetaStore]_vars

\* The items the store had taken in when answer k was given.
ReceivedAt(k) == SubSeq(hist.pushed, 1, hist.at[k])

\* C32: with a scalar examineType every answer is the list of the values the
\* store has taken in so far, in the order pushed: the empty list before the
\* first value, and a later answer is an earlier one followed by the values
\* taken in between.
C32_AnswerIsReceived ==
  props.examineType = "string" =>
    \A k \in 1..Len(out) :
      /\ out[k] = ReceivedAt(k)
      /\ hist.at[k] = 0 => out[k] = <<>>
      /\ \A l \in (k + 1)..Len(out) :
           out[l] = out[k] \o SubSeq(hist.pushed, hist.at[k] + 1, hist.at[l])

\* C32: the queries of Test_MetaStore__Single: [], ["test1"], ["test1",
\* "test2"].
C32_Witness ==
  /\ props.examineType = "string"
  /\ out = << <<>>, <<StringValue("test1", 5)>>,
              <<StringValue("test1", 5), StringValue("test2", 5)>> >>

\* The positions of the BOS among the items, and the position of the j-th.
BOSAt(items) == {p \in 1..Len(items) : items[p].kind = "BOS"}

NthBOS(items, j) ==
  CHOOSE p \in BOSAt(items) : Cardinality({q \in BOSAt(items) : q <= p}) = j

\* The list of the stream begun at position b of the items: its elements up
\* to its EOS, or up to the end and the placeholder when the EOS is not there.
StreamList(items, b) ==
  LET ends == {e \in (b + 1)..Len(items) : items[e].kind = "EOS"}
  IN IF ends = {}
     THEN SubSeq(items, b + 1, Len(items)) \o <<PHMultiple>>
     ELSE SubSeq(items, b + 1, (CHOOSE e \in ends : \A f \in ends : e <= f) - 1)

\* One list per stream begun, in the order of their BOS.
Lists(items) ==
  [j \in 1..Cardinality(BOSAt(items)) |-> StreamList(items, NthBOS(items, j))]

\* C33: with examineType stream<number> every answer holds one list per
\* stream begun so far, in the order of their BOS: the elements taken in
\* followed by PHMultiple for a stream whose EOS has not been taken in, and
\* the elements alone for one whose EOS has.
C33_OneListPerStream ==
  props.examineType = "stream" =>
    \A k \in 1..Len(out) : out[k] = Lists(ReceivedAt(k))

\* C33: the store has taken in BOS, 1.0, EOS, BOS and has answered
\* [[PHMultiple]], [[1.0, PHMultiple]] and [[1.0], [PHMultiple]].
C33_Witness ==
  /\ props.examineType = "stream"
  /\ out = << << <<PHMultiple>> >>, << <<Float64Value(1), PHMultiple>> >>,
              << <<Float64Value(1)>>, <<PHMultiple>> >> >>

\* The pushes the body has made when it has pulled the entries of the log
\* from the k-th on, being at the place mode with the state given and acc
\* pushed so far: BOS on the delegate, for every item the pair item, state
\* and then the pull of the next state, EOS on the delegate, the last state
\* on the main output; a marker on init goes to the main output with the
\* marker of the items.  ok is FALSE when a pull is from another port than
\* the one that is due; scope is FALSE when the input is none of these.
RECURSIVE Rounds(_, _, _, _, _)
Rounds(log, k, mode, state, acc) ==
  IF k > Len(log) THEN [ok |-> TRUE, scope |-> TRUE, out |-> acc]
  ELSE LET e == log[k]
           i == e.item
           Wrong == [ok |-> FALSE, scope |-> TRUE, out |-> acc]
           Other == [ok |-> TRUE, scope |-> FALSE, out |-> acc]
       IN CASE mode = "init" ->
                 IF e.port # "init" THEN Wrong
                 ELSE Rounds(log, k + 1, IF IsMarker(i) THEN "marker" ELSE "bos", i, acc)
            [] mode = "marker" ->
                 IF e.port # "items" THEN Wrong
                 ELSE IF ~IsMarker(i) THEN Other
                 ELSE Rounds(log, k + 1, "init", state, Append(acc, Pushed("out", state)))
            [] mode = "bos" ->
                 IF e.port # "items" THEN Wrong
                 ELSE IF i # BOS("items") THEN Other
                 ELSE Rounds(log, k + 1, "delegate bos", state,
                             Append(acc, Pushed("iteration", BOS("iteration"))))
            [] mode = "delegate bos" ->
                 IF e.port # "iteration" THEN Wrong
                 ELSE IF i # BOS("iteration") THEN Other
                 ELSE Rounds(log, k + 1, "item", state, acc)
            [] mode = "item" ->
                 IF e.port # "items" THEN Wrong
                 ELSE IF i = EOS("items")
                 THEN Rounds(log, k + 1, "delegate eos", state,
                             Append(acc, Pushed("iteration", EOS("iteration"))))
                 ELSE IF IsMarker(i) THEN Other
                 ELSE Rounds(log, k + 1, "state", state,
                             acc \o <<Pushed("iteration.item", i),
                                      Pushed("iteration.state", state)>>)
            [] mode = "state" ->
                 IF e.port # "iteration" THEN Wrong
                 ELSE IF IsMarker(i) THEN Other
                 ELSE Rounds(log, k + 1, "item", i, acc)
            [] mode = "delegate eos" ->
                 IF e.port # "iteration" THEN Wrong
                 ELSE IF i # EOS("iteration") THEN Other
                 ELSE Rounds(log, k + 1, "init", state, Append(acc, Pushed("out", state)))

\* C34: the aggregate body pulls from the port that is due, and on an init
\* state with a stream of items it has pushed BOS on the iteration delegate,
\* for every item the pair item, state before it pulls the next state and
\* that before the next item, then EOS on the delegate, and one value on the
\* main output: the last state the delegate returned, the init state when
\* there was no item; a marker on init is pushed once on the main output and
\* nothing on the delegate.
C34_AggregateRounds ==
  props.op = "aggregate" =>
    \E r \in {Rounds(hist.pulled, 1, "init", NIL, <<>>)} :
      /\ r.ok
      /\ r.scope => pc # "panic" /\ out = r.out

\* C34: a round of two items with the states "t" and "u" returned has ended
\* with "u" on the main output.
C34_Witness ==
  /\ props.op = "aggregate"
  /\ pc = "PullInit"
  /\ Len(hist.pulled) = 9
  /\ hist.pulled[5] = Pushed("iteration", StringValue("t", 1))
  /\ hist.pulled[7] = Pushed("iteration", StringValue("u", 1))
  /\ out[Len(out)] = Pushed("out", StringValue("u", 1))
  /\ Len(out) = 7

\* How often the pair c has been connected, and how often the table t lists
\* it.
Times(c) == Cardinality({j \in 1..Len(wires) : wires[j] = c})

ListedIn(t, c) ==
  IF c[1] \notin DOMAIN t THEN 0
  ELSE Cardinality({j \in 1..Len(t[c[1]]) : t[c[1]][j] = c[2]})

\* C36 as stated: no pair of a source and a destination has been connected
\* more than once.
C36_NoPairTwice ==
  pc = "created" => \A j, k \in 1..Len(wires) : j # k => wires[j] # wires[k]

\* C36 amended: a pair of a source and a destination has been connected at
\* most as often as the table parsed lists it, however often the operator
\* of the destination was met and whether or not the graph has a cycle: once
\* when it is listed once.
C36_NoEntryTwice ==
  pc = "created" =>
    \E t \in {ParsedConns(def, <<>>, hist.ord).conns} :
      \A j \in 1..Len(wires) : Times(wires[j]) <= ListedIn(t, wires[j])

\* C36: the unordered run has connected the root to a, a to b and b to the
\* service s of a, the cycle from a to a, each once.
C36_Witness ==
  /\ pc = "created" /\ ~hist.ordered /\ err = NoErr
  /\ Len(wires) = 3
  /\ \E i, j \in 1..3 :
       /\ wires[i][1].op = KeyA /\ wires[i][2].op = KeyB
       /\ wires[j][1].op = KeyB /\ wires[j][2].op = KeyA /\ wires[j][2].name = NameSrv
  /\ \A j \in 1..3 : Times(wires[j]) = 1

\* The texts of the references of the definition, and whether one fails to
\* parse.
ConnectionRefs == DOMAIN def.Connections
                \cup UNION {{def.Connections[s][j] : j \in 1..Len(def.Connections[s])} :
                              s \in DOMAIN def.Connections}

ParseError(ref) == ParsePortReference(ref, NewOperator(<<>>, def)).err

\* C37: a connection has been made or refused only when every reference of
\* the definition parses; when one fails to parse, no operator is returned,
\* no connection has been made and the error is the parse error of a
\* reference that fails, followed by its text.
C37_ParsedBeforeConnected ==
  pc = "created" =>
    /\ (wires # <<>> \/ err = "types do not match") =>
         \A ref \in ConnectionRefs : ParseError(ref) = NoErr
    /\ (\E ref \in ConnectionRefs : ParseError(ref) # NoErr) =>
         /\ out = NoOperator
         /\ wires = <<>>
         /\ \E ref \in ConnectionRefs :
              /\ ParseError(ref) # NoErr
              /\ err = Errorf(ParseError(ref), ref)

\* C37: the destination (x after (a does not parse: the error names (x and
\* the root has not been connected to a.
C37_Witness ==
  /\ pc = "created"
  /\ def.Connections = (<<"(">> :> <<<<"(", "a">>, <<"(", "x">>>>)
  /\ err = "operator has no child: (x"
  /\ wires = <<>>

(***************************************************************************)
(* SpecConnectCalls: connectDestinations (slang.go:431-477) call by call.  *)
(* heap is the stack of the calls that are in their loop over contdOps,    *)
(* each with its contdOps and the place in it; data is the table conns,    *)
(* the order of its keys and the operator of the call to come; wires the   *)
(* connections made; hist the mode, the order of the map and the number of *)
(* calls made.  The plans are those of up to MaxPlan connections over the  *)
(* root and the children a and b.                                          *)
(***************************************************************************)
MaxPlan == 3

\* The deepest stack of calls the model follows.
MaxDepth == 6

Plans ==
  {OperatorDefC(NameMain :> NumberPorts, NoMap, (KeyA :> ChildA) @@ (KeyB :> ChildB),
                ConnectionsOf(f)) :
     f \in UNION {[D -> SourceRefs] :
                    D \in {D \in SUBSET DestinationRefs : Cardinality(D) <= MaxPlan}}}

\* connectDestinations(o, parsedConns, ordered) is called (slang.go:423).
InitConnectCalls ==
  \E d \in Plans, ordered \in BOOLEAN :
    \E ord \in Perms(DOMAIN d.Connections) :
      \E p \in {ParsedConns(d, <<>>, ord)} :
        /\ p.err = NoErr
        /\ def = d
        /\ hist = [ordered |-> ordered, ord |-> ord, calls |-> 0]
        /\ data = [conns |-> p.conns, keys |-> p.keys, o |-> <<>>]
        /\ heap = <<>>
        /\ wires = <<>>
        /\ pc = "call"
        /\ err = NoErr
        /\ out = NoOperator
        /\ td = NIL /\ cpy = NIL /\ gens = Idle /\ expr = Idle
        /\ props = Idle /\ propDefs = Idle

\* Lines 432-468 of a call: the sources of o are connected and taken out of
\* the table, contdOps is chosen; an error of Connect goes up through every
\* caller (440-441, 472-474).
ConnectCall ==
  /\ pc = "call"
  /\ Len(heap) < MaxDepth
  /\ \E x \in {ConnectSources(data.o, data.keys, 1,
                              [conns |-> data.conns, wires |-> wires, ops |-> <<>>,
                               err |-> NoErr])} :
       /\ wires' = x.wires
       /\ data' = [data EXCEPT !.conns = x.conns]
       /\ err' = x.err
       /\ IF x.err # NoErr
          THEN heap' = <<>> /\ pc' = "returned"
          ELSE /\ heap' = Append(heap, [ops |-> ContinuedOps(x.ops, x.conns, hist.ordered),
                                        i |-> 1])
               /\ pc' = "loop"
  /\ hist' = [hist EXCEPT !.calls = @ + 1]
  /\ UNCHANGED <<td, cpy, gens, expr, props, propDefs, out, def>>

\* Lines 470-476: the next operator of contdOps is called, or the call
\* returns nil to its caller.
ConnectContinue ==
  /\ pc = "loop"
  /\ \E top \in {heap[Len(heap)]} :
       IF top.i > Len(top.ops)
       THEN /\ heap' = SubSeq(heap, 1, Len(heap) - 1)
            /\ pc' = IF Len(heap) = 1 THEN "returned" ELSE "loop"
            /\ data' = data
       ELSE /\ heap' = [heap EXCEPT ![Len(heap)].i = @ + 1]
            /\ pc' = "call"
            /\ data' = [data EXCEPT !.o = top.ops[top.i]]
  /\ UNCHANGED <<td, cpy, gens, expr, wires, props, propDefs, out, def, err, hist>>

NextConnectCalls ==
  \/ ConnectCall
  \/ ConnectContinue

SpecConnectCalls == InitConnectCalls /\ [][NextConnectCalls]_vars

\* The call runs on as long as it has a step to take.
SpecConnectCallsFair == SpecConnectCalls /\ WF_vars(NextConnectCalls)

\* C35: connectDestinations returns on every plan, ordered or not, with or
\* without cycles and with several connections into one operator; it has
\* made at most one call more than it has made connections, and the stack of
\* calls never gets as deep as the model follows it.
C35_Returns ==
  /\ [](hist.calls <= Len(wires) + 1 /\ (pc = "call" => Len(heap) < MaxDepth))
  /\ <>(pc = "returned")

\* C35: the unordered run has returned from the cycle ( -> (a, a) -> (b,
\* b) -> (s@a, in which a is met twice, after four calls.
C35_Witness ==
  /\ pc = "returned" /\ ~hist.ordered /\ err = NoErr
  /\ Len(wires) = 3 /\ hist.calls = 4
  /\ \E i, j \in 1..3 :
       /\ wires[i][1].op = KeyA /\ wires[i][2].op = KeyB
       /\ wires[j][1].op = KeyB /\ wires[j][2].op = KeyA /\ wires[j][2].name = NameSrv

\* C39: the validity bit follows validation: once Validate has returned, the
\* TypeDef it was called on is valid exactly when the call returned nil.
C39_ValidFollowsValidate ==
  pc = "validated" => (heap[td].valid <=> err = NoErr)

\* The property names the placeholders of tree t refer to, in generic
\* identifiers and in map keys.
RECURSIVE Referenced(_)
Referenced(t) ==
  PlaceholderNames(t.Generic)
  \cup (IF t.Stream = <<>> THEN {} ELSE Referenced(t.Stream[1]))
  \cup UNION {PlaceholderNames(k) \cup (IF t.Map[k] = <<>> THEN {} ELSE Referenced(t.Map[k][1])) :
                k \in DOMAIN t.Map}

\* C40: ApplyProperties returns nil for every valid TypeDef whose
\* placeholders all name properties that the bag and the schema hold.
C40_ValidAppliesNil ==
  (/\ pc \in {"applied", "panic"}
   /\ WellFormed(hist.orig)
   /\ Referenced(hist.orig) \subseteq DOMAIN props \cap DOMAIN propDefs)
    => (pc = "applied" /\ err = NoErr)

=============================================================================
